---- MODULE Spec2Model ----
(***************************************************************************)
(* AgentTalk: the /speak control plane, the bounded TTS queue, the TTS     *)
(* worker thread and the audio ducker, as a state machine.                 *)
(*                                                                         *)
(* Threads: the uvicorn event loop (HTTP handlers, run one at a time, no   *)
(* await inside a handler), the tts-worker daemon thread, and the audio    *)
(* device.  A handler and the worker interleave at every access to the     *)
(* shared queue and the shared State dict.                                 *)
(***************************************************************************)
EXTENDS Integers, Sequences, FiniteSets, TLC

\* ------------------------------------------------------------------------
\* Program constants
\* ------------------------------------------------------------------------
QUEUE_CAPACITY == 10
MAX_CONSECUTIVE_FAILURES == 3
\* Master volume 1.0, in units of 1/1024 so that halving stays exact.
FullVolume == 1024

\* ------------------------------------------------------------------------
\* Bounds of the model
\* ------------------------------------------------------------------------
MaxCalls == 3          \* /speak and /config requests served in one run
MaxSentences == 5      \* sentences preprocess() yields for one text
MaxFaultCalls == 2     \* requests served in the runs with faults
MaxFaultSentences == 2 \* sentences of one text in the runs with faults

None == "None"
NoItem == [call |-> 0, idx |-> 0, seq |-> 0]
NoResponse == [code |-> 0]

VARIABLES
    phase,             \* "startup" until the lifespan hook has run, then "serving"
    is_ready,          \* service.is_ready
    TTS_QUEUE,         \* tts_worker.TTS_QUEUE, oldest item first
    State,             \* tts_worker.STATE dict
    http,              \* the handler the event loop is running, its locals,
                       \* and the response of the last finished handler
    ncalls,            \* requests accepted so far
    enq_count,         \* ghost: items ever inserted into TTS_QUEUE
    burst,             \* ghost: over the /speak calls that reached the loop and
                       \* returned: sentences, queued counts, dropped counts,
                       \* and how many of the calls queued something
                       \* while the cue paths were set
    wpc,               \* position of the tts-worker thread
    item,              \* worker local: the dequeued item
    ducked,            \* worker local
    engine,            \* worker local: the resolved engine
    used,              \* ghost: State values the worker passed on for item
    at_dequeue,        \* ghost: State as it was when item was dequeued
    consecutive_failures,
    notices,           \* icon.notify() calls made
    icon_image,        \* image shown by the tray icon
    piper_loaded_path, \* tts_worker._piper_loaded_path (None: no engine)
    piper_loads,       \* PiperEngine constructions so far
    saved,             \* AudioDucker._saved: process name -> volume
    sessions,          \* audio sessions of the OS mixer
    pre_duck,          \* ghost: the sessions as they were when duck() began
    duck_phase,        \* ghost: "ducked" after duck(), "restored" after the
                       \* unduck() that follows it
    playing,           \* the audio device: item in playback, or None
    last_started,      \* ghost: last item handed to sd.play
    config_file,       \* config.json on disk (NoConfig: absent)
    tmp_file,          \* config.json.tmp on disk (NoConfig: absent)
    tray,              \* the tray (main) thread: its callback and locals
    last_save,         \* ghost: how the save_config finished last ended
    pid_file,          \* the PID file: 0 absent, -1 corrupt, else a pid
    pid,               \* pid of the service process (0: not running)
    launches,          \* processes started so far; the next pid
    second,            \* what became of a launch beside a running service
    pre_restart,       \* ghost: State when the service last exited
    seen,              \* ghost: values State has had since item was dequeued
    cue_plays,         \* winsound.PlaySound calls made by play_cue
    unfinished_tasks,  \* TTS_QUEUE.unfinished_tasks: puts not yet task_done()
    pp,                \* a text and what the preprocessor made of it
    hook,              \* a hook process: its stdin, position and effects
    at_stop,           \* ghost: where the worker was when POST /stop or
                       \* Quit came
    sup,               \* processes started together: each one's position
                       \* in main()
    lifespan           \* the lifespan hook statement by statement: its
                       \* position, how the engine load ended, and the
                       \* create and play calls it has made itself

vars == <<phase, is_ready, TTS_QUEUE, State, http, ncalls, enq_count, burst, wpc,
          item,
          ducked, engine, used, at_dequeue, consecutive_failures, notices,
          icon_image, piper_loaded_path, piper_loads, saved, sessions,
          pre_duck, duck_phase, playing, last_started, config_file,
          tmp_file, tray, last_save, pid_file, pid, launches, second,
          pre_restart, seen, cue_plays, unfinished_tasks, pp, hook,
          at_stop, sup, lifespan>>

httpVars == <<phase, is_ready, TTS_QUEUE, State, http, ncalls, enq_count, burst,
              config_file>>
workerVars == <<wpc, item, ducked, engine, used, at_dequeue,
                consecutive_failures, notices, icon_image, piper_loaded_path,
                piper_loads, last_started>>
duckVars == <<saved, sessions, pre_duck, duck_phase>>
lifeVars == <<tmp_file, tray, last_save, pid_file, pid, launches, second,
              pre_restart>>
toolVars == <<pp, hook, sup, lifespan>>
otherVars == <<pp, hook, sup, lifespan, at_stop>>

\* ------------------------------------------------------------------------
\* Helpers
\* ------------------------------------------------------------------------
\* the tts_worker STATE dict as the module sets it at import
DefaultState ==
    [volume |-> 10, speed |-> 10, voice |-> "af_heart", muted |-> FALSE,
     speaking |-> FALSE, pre_cue_path |-> None, post_cue_path |-> None,
     model |-> "kokoro", piper_model_path |-> None, speech_mode |-> "auto"]

\* ------------------------------------------------------------------------
\* queue.Queue(maxsize=10)
\* ------------------------------------------------------------------------
\* put_nowait on a queue without the maxsize test (a plausible slip)
PutUnbounded(q, x) == [full |-> FALSE, q |-> Append(q, x)]

\* Queue.put_nowait: raises queue.Full when maxsize items are held,
\* otherwise appends at the tail.
put_nowait(q, x) ==
    IF Len(q) >= QUEUE_CAPACITY
        THEN [full |-> TRUE, q |-> q]
        ELSE [full |-> FALSE, q |-> Append(q, x)]

\* ------------------------------------------------------------------------
\* POST /speak
\* ------------------------------------------------------------------------
Idle == [op |-> "idle", call |-> 0, sentences |-> <<>>, i |-> 0, queued |-> 0,
         dropped |-> 0, inserted |-> <<>>, sawFull |-> FALSE,
         updates |-> <<>>, persisted |-> <<>>, resp |-> NoResponse]

\* What preprocess(req.text) does for the texts of the model: it raises, or
\* it returns n sentences.  A sentence is named by its call and its index.
PreprocessOutcomes(most) ==
    {[raised |-> TRUE, n |-> 0]} \cup {[raised |-> FALSE, n |-> n] : n \in 0..most}

Sentences(call, n) == [k \in 1..n |-> [call |-> call, idx |-> k]]

\* the response that ends the handler, from its two counters
SpeakResponseAlways202(queued, dropped) ==
    [code |-> 202, status |-> "queued", sentences |-> queued, dropped |-> dropped]

SpeakResponse(queued, dropped) ==
    IF queued = 0
        THEN [code |-> 429, status |-> "dropped", reason |-> "queue full"]
        ELSE [code |-> 202, status |-> "queued", sentences |-> queued,
              dropped |-> dropped]

\* the early returns of the handler; NoResponse when it goes on to the loop
SpeakEarlyNoReadyCheck(ready, outcome) ==
    IF outcome.raised
        THEN [code |-> 500, status |-> "error", reason |-> "preprocessing failed"]
    ELSE IF outcome.n = 0
        THEN [code |-> 200, status |-> "skipped", reason |-> "no speakable sentences"]
    ELSE NoResponse

SpeakEarly(ready, outcome) ==
    IF ~ready
        THEN [code |-> 503, status |-> "not_ready"]
    ELSE IF outcome.raised
        THEN [code |-> 500, status |-> "error", reason |-> "preprocessing failed"]
    ELSE IF outcome.n = 0
        THEN [code |-> 200, status |-> "skipped", reason |-> "no speakable sentences"]
    ELSE NoResponse

\* The handler up to its loop: ready test, preprocess, empty test.
SpeakBegin(limit, most) ==
    /\ phase = "serving"
    /\ http.op = "idle"
    /\ ncalls < limit
    /\ \E outcome \in PreprocessOutcomes(most) :
         LET early == SpeakEarly(is_ready, outcome) IN
         /\ ncalls' = ncalls + 1
         /\ IF early.code # 0
               THEN http' = [Idle EXCEPT !.call = ncalls + 1, !.resp = early]
               ELSE http' = [Idle EXCEPT !.op = "speak", !.call = ncalls + 1,
                                         !.sentences = Sentences(ncalls + 1, outcome.n),
                                         !.i = 1]
    /\ UNCHANGED <<phase, is_ready, TTS_QUEUE, State, enq_count, burst, config_file>>
    /\ UNCHANGED workerVars
    /\ UNCHANGED duckVars
    /\ UNCHANGED playing
    /\ UNCHANGED lifeVars
    /\ UNCHANGED <<seen, cue_plays>>
    /\ UNCHANGED unfinished_tasks
    /\ UNCHANGED otherVars

\* after Full the loop goes on to the next sentence (break forgotten)
AfterFullContinue(h) ==
    IF h.i >= Len(h.sentences)
        THEN [Idle EXCEPT !.call = h.call, !.sentences = h.sentences,
                          !.queued = h.queued, !.dropped = h.dropped + 1,
                          !.inserted = h.inserted, !.sawFull = TRUE,
                          !.resp = SpeakResponse(h.queued, h.dropped + 1)]
        ELSE [h EXCEPT !.i = h.i + 1, !.dropped = h.dropped + 1, !.sawFull = TRUE]

\* except queue.Full: dropped += 1; break; then the response
AfterFull(h) ==
    [Idle EXCEPT !.call = h.call, !.sentences = h.sentences,
                 !.queued = h.queued, !.dropped = h.dropped + 1,
                 !.inserted = h.inserted, !.sawFull = TRUE,
                 !.resp = SpeakResponse(h.queued, h.dropped + 1)]

\* queued += 1; next sentence, or the response after the last one
AfterPut(h, x) ==
    IF h.i >= Len(h.sentences)
        THEN [Idle EXCEPT !.call = h.call, !.sentences = h.sentences,
                          !.queued = h.queued + 1, !.dropped = h.dropped,
                          !.inserted = Append(h.inserted, x),
                          !.sawFull = h.sawFull,
                          !.resp = SpeakResponse(h.queued + 1, h.dropped)]
        ELSE [h EXCEPT !.i = h.i + 1, !.queued = h.queued + 1,
                       !.inserted = Append(h.inserted, x)]

\* both cue paths are configured
CuesSet(st) == st.pre_cue_path # None /\ st.post_cue_path # None

\* a loop beside which another producer runs: after the put of this
\* call's sentence a sentence of another call lands in the queue
SpeakPutInterleaved ==
    /\ http.op = "speak"
    /\ LET x == http.sentences[http.i]
           r == put_nowait(TTS_QUEUE, [call |-> x.call, idx |-> x.idx,
                                       seq |-> enq_count + 1])
           other == put_nowait(r.q, [call |-> x.call + 1, idx |-> 1,
                                     seq |-> enq_count + 2])
       IN  IF r.full
              THEN /\ TTS_QUEUE' = r.q
                   /\ http' = AfterFull(http)
                   /\ enq_count' = enq_count
                   /\ unfinished_tasks' = unfinished_tasks
              ELSE /\ TTS_QUEUE' = other.q
                   /\ http' = AfterPut(http, x)
                   /\ enq_count' = enq_count + (IF other.full THEN 1 ELSE 2)
                   /\ unfinished_tasks' =
                        unfinished_tasks + (IF other.full THEN 1 ELSE 2)
    /\ UNCHANGED burst
    /\ UNCHANGED <<phase, is_ready, State, ncalls, config_file>>
    /\ UNCHANGED workerVars
    /\ UNCHANGED duckVars
    /\ UNCHANGED playing
    /\ UNCHANGED lifeVars
    /\ UNCHANGED <<seen, cue_plays>>
    /\ UNCHANGED otherVars

\* One iteration of `for sentence in sentences`: one put_nowait.  The worker
\* thread may run between two iterations.
SpeakPut ==
    /\ http.op = "speak"
    /\ LET x == http.sentences[http.i]
           r == put_nowait(TTS_QUEUE, [call |-> x.call, idx |-> x.idx,
                                       seq |-> enq_count + 1])
       IN  /\ TTS_QUEUE' = r.q
           /\ IF r.full
                 THEN /\ http' = AfterFull(http)
                      /\ enq_count' = enq_count
                      /\ unfinished_tasks' = unfinished_tasks
                 ELSE /\ http' = AfterPut(http, x)
                      /\ enq_count' = enq_count + 1
                      /\ unfinished_tasks' = unfinished_tasks + 1
    /\ burst' = IF http'.op = "idle"
                   THEN [m |-> burst.m + Len(http'.sentences),
                         queued |-> burst.queued + http'.queued,
                         dropped |-> burst.dropped + http'.dropped,
                         cued |-> burst.cued
                                    + (IF http'.queued > 0 /\ CuesSet(State)
                                          THEN 1 ELSE 0)]
                   ELSE burst
    /\ UNCHANGED <<phase, is_ready, State, ncalls, config_file>>
    /\ UNCHANGED workerVars
    /\ UNCHANGED duckVars
    /\ UNCHANGED playing
    /\ UNCHANGED lifeVars
    /\ UNCHANGED <<seen, cue_plays>>
    /\ UNCHANGED otherVars

\* ------------------------------------------------------------------------
\* audio_duck.AudioDucker
\* ------------------------------------------------------------------------
\* Bound: audio sessions the mixer may hold
MaxSessions == 3

SessionIds == 1..MaxSessions

\* session.Process.name() of the sessions of the model; None: a session
\* without a process (System Sounds)
OwnNames == {"python.exe"}

\* A pycaw fault inside duck() or unduck(): none, GetAllSessions raising
\* ("enum"), or SetMasterVolume raising on session `at` ("set"): on the
\* first session, or on the last one after the others were handled.
NoFault == [kind |-> "none", at |-> 0]
NoFaults == {NoFault}
DuckFaults ==
    {NoFault, [kind |-> "enum", at |-> 0]}
        \cup {[kind |-> "set", at |-> k] : k \in {1, MaxSessions}}
FaultAt(fault, k) == fault.kind = "set" /\ fault.at = k

\* comtypes.CoInitialize() raising: it stands before the try of duck() and
\* of unduck(), so the exception leaves the ducker
InitFault == [kind |-> "init", at |-> 0]

\* AudioUtilities.GetAllSessions() lists the sessions present, by id.  A
\* session is "future" until it appears and "gone" once it has ended.
Present(sess, k) == sess[k].status = "present"

EmptySaved == [n \in {} |-> 0]

\* AudioDucker.is_ducked
is_ducked(sv) == DOMAIN sv # {}

\* The loop of duck() from session k on.  r = [saved, sessions].
RECURSIVE DuckFrom(_, _, _, _)
DuckFrom(k, sv, sess, fault) ==
    IF k > MaxSessions THEN [saved |-> sv, sessions |-> sess]
    ELSE IF ~Present(sess, k) \/ sess[k].proc = None \/ sess[k].proc \in OwnNames
        THEN DuckFrom(k + 1, sv, sess, fault)
    ELSE LET original == sess[k].vol IN
         IF original > 0
            THEN LET sv2 == (sess[k].proc :> original) @@ sv IN
                 IF FaultAt(fault, k)
                    THEN [saved |-> sv2, sessions |-> sess]
                    ELSE DuckFrom(k + 1, sv2,
                                  [sess EXCEPT ![k].vol = original \div 2], fault)
            ELSE DuckFrom(k + 1, sv, sess, fault)

\* AudioDucker.duck(): clear the snapshot, then save and halve every other
\* session; an exception ends the loop and is swallowed.
duck(sv, sess, fault) ==
    IF fault.kind = "enum"
        THEN [saved |-> EmptySaved, sessions |-> sess]
        ELSE DuckFrom(1, EmptySaved, sess, fault)

\* The loop of unduck() from session k on.  r = [sessions, raised].
RECURSIVE UnduckFrom(_, _, _, _)
UnduckFrom(k, sv, sess, fault) ==
    IF k > MaxSessions THEN [sessions |-> sess, raised |-> FALSE]
    ELSE IF ~Present(sess, k) \/ sess[k].proc = None
        THEN UnduckFrom(k + 1, sv, sess, fault)
    ELSE IF sess[k].proc \in DOMAIN sv
        THEN IF FaultAt(fault, k)
                THEN [sessions |-> sess, raised |-> TRUE]
                ELSE UnduckFrom(k + 1, sv,
                                [sess EXCEPT ![k].vol = sv[sess[k].proc]], fault)
    ELSE UnduckFrom(k + 1, sv, sess, fault)

\* AudioDucker.unduck(): nothing when the snapshot is empty; otherwise
\* restore by process name and clear the snapshot; an exception is
\* swallowed and the snapshot is kept.
unduck(sv, sess, fault) ==
    IF ~is_ducked(sv)
        THEN [saved |-> sv, sessions |-> sess]
    ELSE IF fault.kind \in {"enum", "init"}
        THEN [saved |-> sv, sessions |-> sess]
    ELSE LET r == UnduckFrom(1, sv, sess, fault) IN
         [saved |-> IF r.raised THEN sv ELSE EmptySaved, sessions |-> r.sessions]

\* The mixer outside the service: a session of another program appears.
SessionAppears ==
    /\ \E k \in SessionIds :
         /\ sessions[k].status = "future"
         /\ sessions' = [sessions EXCEPT ![k].status = "present"]
    /\ UNCHANGED <<saved, pre_duck, duck_phase, playing>>
    /\ UNCHANGED httpVars
    /\ UNCHANGED workerVars
    /\ UNCHANGED lifeVars
    /\ UNCHANGED <<seen, cue_plays>>
    /\ UNCHANGED unfinished_tasks
    /\ UNCHANGED otherVars

\* The mixer outside the service: a session ends.
SessionDisappears ==
    /\ \E k \in SessionIds :
         /\ sessions[k].status = "present"
         /\ sessions' = [sessions EXCEPT ![k].status = "gone"]
    /\ UNCHANGED <<saved, pre_duck, duck_phase, playing>>
    /\ UNCHANGED httpVars
    /\ UNCHANGED workerVars
    /\ UNCHANGED lifeVars
    /\ UNCHANGED <<seen, cue_plays>>
    /\ UNCHANGED unfinished_tasks
    /\ UNCHANGED otherVars

\* ------------------------------------------------------------------------
\* tts_worker._tts_worker
\* ------------------------------------------------------------------------
\* the STATE fields the worker reads for an utterance
WorkerFieldNames == {"model", "piper_model_path", "voice", "speed", "volume"}
WorkerFields(st) == [f \in WorkerFieldNames |-> st[f]]

NoUsed == [model |-> None, piper_model_path |-> None, voice |-> None, speed |-> 0,
           volume |-> 0, got |-> {}]

\* Queue.get() that hands out the newest item
QueueGetNewest(q) ==
    [x |-> q[Len(q)], q |-> SubSeq(q, 1, Len(q) - 1)]

\* Queue.get(): the oldest item
QueueGet(q) == [x |-> Head(q), q |-> Tail(q)]

\* _notify_if_degraded, with failures already incremented; the icon
\* reference is set by start_tts_worker
NotifyIfDegraded(failures) ==
    IF failures >= MAX_CONSECUTIVE_FAILURES THEN notices + 1 ELSE notices

\* an exception that leaves the item loop: the thread ends
FailEscapes ==
    /\ consecutive_failures' = consecutive_failures + 1
    /\ notices' = NotifyIfDegraded(consecutive_failures + 1)
    /\ wpc' = "off"

\* the two except clauses: count the failure, notify, go to finally
Fail ==
    /\ consecutive_failures' = consecutive_failures + 1
    /\ notices' = NotifyIfDegraded(consecutive_failures + 1)
    /\ wpc' = "finally"

\* a task_done() that does not count (the call left out)
TaskDoneSkipped(unfinished) == unfinished

\* TTS_QUEUE.task_done(): one put fewer is unfinished
task_done(unfinished) == unfinished - 1

\* isinstance(item, _CueItem): a cue sentinel is the item with a path
IsCueItem(x) == "path" \in DOMAIN x

\* play_cue(path): nothing without a path, else one PlaySound call (its
\* errors are logged and swallowed)
play_cue(path, plays) == IF path = None THEN plays ELSE plays + 1

\* item = TTS_QUEUE.get(); a cue sentinel is played and the loop goes on;
\* else sentence = item; ducked = False
WorkerGet ==
    /\ wpc = "get"
    /\ TTS_QUEUE # <<>>
    /\ LET r == QueueGet(TTS_QUEUE) IN
         /\ TTS_QUEUE' = r.q
         /\ IF IsCueItem(r.x)
               THEN /\ cue_plays' = play_cue(r.x.path, cue_plays)
                    /\ unfinished_tasks' = task_done(unfinished_tasks)
                    /\ UNCHANGED <<wpc, item, ducked, at_dequeue, used, seen>>
               ELSE /\ item' = r.x
                    /\ ducked' = FALSE
                    /\ at_dequeue' = State
                    /\ used' = NoUsed
                    /\ seen' = {WorkerFields(State)}
                    /\ wpc' = "check"
                    /\ UNCHANGED <<cue_plays, unfinished_tasks>>
    /\ UNCHANGED <<phase, is_ready, State, http, ncalls, enq_count, burst, config_file>>
    /\ UNCHANGED <<engine, consecutive_failures, notices, icon_image,
                   piper_loaded_path, piper_loads, last_started>>
    /\ UNCHANGED duckVars
    /\ UNCHANGED playing
    /\ UNCHANGED lifeVars
    /\ UNCHANGED otherVars

\* _swap_icon(image_fn, label): the tray icon gets the image, unless the
\* icon raises; the exception is logged and swallowed
swap_icon(image, shown, ok) == IF ok THEN image ELSE shown

\* a worker that skips nothing (the muted test left out)
SkipNothing(st) == FALSE

\* if STATE["muted"]: continue; if not sentence.strip(): continue -- a
\* sentence of preprocess() is never blank
SkipSentence(st) == st.muted

\* a worker whose skips run the else clause: the counter is reset
CheckSkipResets(swaps) ==
    /\ wpc = "check"
    /\ IF SkipSentence(State)
          THEN /\ wpc' = "finally"
               /\ consecutive_failures' = 0
               /\ UNCHANGED <<State, icon_image>>
          ELSE /\ State' = [State EXCEPT !.speaking = TRUE]
               /\ \E ok \in swaps :
                    icon_image' = swap_icon("speaking", icon_image, ok)
               /\ wpc' = "resolve"
               /\ UNCHANGED consecutive_failures
    /\ UNCHANGED <<phase, is_ready, TTS_QUEUE, http, ncalls, enq_count, burst, config_file>>
    /\ UNCHANGED <<item, ducked, engine, used, at_dequeue,
                   notices, piper_loaded_path, piper_loads, last_started>>
    /\ UNCHANGED duckVars
    /\ UNCHANGED playing
    /\ UNCHANGED lifeVars
    /\ UNCHANGED <<seen, cue_plays>>
    /\ UNCHANGED unfinished_tasks
    /\ UNCHANGED otherVars

\* the two skips, else STATE["speaking"] = True and the speaking icon
WorkerCheck(swaps) ==
    /\ wpc = "check"
    /\ IF SkipSentence(State)
          THEN /\ wpc' = "finally"
               /\ UNCHANGED <<State, icon_image>>
          ELSE /\ State' = [State EXCEPT !.speaking = TRUE]
               /\ \E ok \in swaps :
                    icon_image' = swap_icon("speaking", icon_image, ok)
               /\ wpc' = "resolve"
    /\ UNCHANGED <<phase, is_ready, TTS_QUEUE, http, ncalls, enq_count, burst, config_file>>
    /\ UNCHANGED <<item, ducked, engine, used, at_dequeue, consecutive_failures,
                   notices, piper_loaded_path, piper_loads, last_started>>
    /\ UNCHANGED duckVars
    /\ UNCHANGED playing
    /\ UNCHANGED lifeVars
    /\ UNCHANGED <<seen, cue_plays>>
    /\ UNCHANGED unfinished_tasks
    /\ UNCHANGED otherVars

\* _get_active_engine: model = STATE.get("model")
WorkerResolve ==
    /\ wpc = "resolve"
    /\ used' = [used EXCEPT !.model = State.model, !.got = @ \cup {"model"}]
    /\ IF State.model = "piper"
          THEN /\ wpc' = "resolve_path"
               /\ UNCHANGED engine
          ELSE /\ wpc' = "duck"
               /\ engine' = "kokoro"
    /\ UNCHANGED httpVars
    /\ UNCHANGED <<item, ducked, at_dequeue, consecutive_failures, notices,
                   icon_image, piper_loaded_path, piper_loads, last_started>>
    /\ UNCHANGED duckVars
    /\ UNCHANGED playing
    /\ UNCHANGED lifeVars
    /\ UNCHANGED <<seen, cue_plays>>
    /\ UNCHANGED unfinished_tasks
    /\ UNCHANGED otherVars

\* a worker that ducks before it resolves the piper engine
ResolvePathAfterDuck(loadOutcomes) ==
    /\ wpc = "resolve_path"
    /\ LET r == duck(saved, sessions, NoFault) IN
         /\ saved' = r.saved
         /\ sessions' = r.sessions
    /\ ducked' = TRUE
    /\ used' = [used EXCEPT !.piper_model_path = State.piper_model_path,
                            !.got = @ \cup {"piper_model_path"}]
    /\ \E ok \in loadOutcomes :
         IF State.piper_model_path # None /\ ok
            THEN /\ piper_loaded_path' = State.piper_model_path
                 /\ piper_loads' = piper_loads + 1
                 /\ engine' = "piper"
                 /\ wpc' = "create"
                 /\ UNCHANGED <<consecutive_failures, notices>>
            ELSE /\ Fail
                 /\ UNCHANGED <<engine, piper_loaded_path, piper_loads>>
    /\ UNCHANGED httpVars
    /\ UNCHANGED <<item, at_dequeue, icon_image, last_started>>
    /\ UNCHANGED <<pre_duck, duck_phase>>
    /\ UNCHANGED playing
    /\ UNCHANGED lifeVars
    /\ UNCHANGED <<seen, cue_plays>>
    /\ UNCHANGED unfinished_tasks
    /\ UNCHANGED otherVars

\* a worker that constructs a PiperEngine for every piper utterance
ResolvePathReloads(loadOutcomes) ==
    /\ wpc = "resolve_path"
    /\ used' = [used EXCEPT !.piper_model_path = State.piper_model_path,
                            !.got = @ \cup {"piper_model_path"}]
    /\ \E ok \in loadOutcomes :
         IF State.piper_model_path # None /\ ok
            THEN /\ piper_loaded_path' = State.piper_model_path
                 /\ piper_loads' = piper_loads + 1
                 /\ engine' = "piper"
                 /\ wpc' = "duck"
                 /\ UNCHANGED <<consecutive_failures, notices>>
            ELSE /\ Fail
                 /\ UNCHANGED <<engine, piper_loaded_path, piper_loads>>
    /\ UNCHANGED httpVars
    /\ UNCHANGED <<item, ducked, at_dequeue, icon_image, last_started>>
    /\ UNCHANGED duckVars
    /\ UNCHANGED playing
    /\ UNCHANGED lifeVars
    /\ UNCHANGED <<seen, cue_plays>>
    /\ UNCHANGED unfinished_tasks
    /\ UNCHANGED otherVars

\* _get_active_engine, model == "piper": piper_path = STATE.get(
\* "piper_model_path"); RuntimeError without a path; PiperEngine(path) when
\* none is loaded or the path differs (it may raise); else the cached one.
WorkerResolvePath(loadOutcomes) ==
    /\ wpc = "resolve_path"
    /\ LET path == State.piper_model_path IN
       /\ used' = [used EXCEPT !.piper_model_path = path, !.got = @ \cup {"piper_model_path"}]
       /\ IF path = None
             THEN /\ Fail
                  /\ UNCHANGED <<engine, piper_loaded_path, piper_loads>>
          ELSE IF piper_loaded_path # path
             THEN \E ok \in loadOutcomes :
                    IF ok
                       THEN /\ piper_loaded_path' = path
                            /\ piper_loads' = piper_loads + 1
                            /\ engine' = "piper"
                            /\ wpc' = "duck"
                            /\ UNCHANGED <<consecutive_failures, notices>>
                       ELSE /\ Fail
                            /\ UNCHANGED <<engine, piper_loaded_path, piper_loads>>
          ELSE /\ engine' = "piper"
               /\ wpc' = "duck"
               /\ UNCHANGED <<piper_loaded_path, piper_loads,
                              consecutive_failures, notices>>
    /\ UNCHANGED httpVars
    /\ UNCHANGED <<item, ducked, at_dequeue, icon_image, last_started>>
    /\ UNCHANGED duckVars
    /\ UNCHANGED playing
    /\ UNCHANGED lifeVars
    /\ UNCHANGED <<seen, cue_plays>>
    /\ UNCHANGED unfinished_tasks
    /\ UNCHANGED otherVars

\* _ducker.duck(); ducked = True -- an exception that leaves duck() goes
\* to `except Exception` with ducked still False
WorkerDuck(faults) ==
    /\ wpc = "duck"
    /\ \E f \in faults :
         IF f = InitFault
            THEN /\ Fail
                 /\ UNCHANGED <<saved, sessions, pre_duck, duck_phase, ducked>>
            ELSE LET r == duck(saved, sessions, f) IN
                 /\ saved' = r.saved
                 /\ sessions' = r.sessions
                 /\ pre_duck' = sessions
                 /\ duck_phase' = "ducked"
                 /\ ducked' = TRUE
                 /\ wpc' = "create"
                 /\ UNCHANGED <<consecutive_failures, notices>>
    /\ UNCHANGED httpVars
    /\ UNCHANGED <<item, engine, used, at_dequeue,
                   icon_image, piper_loaded_path, piper_loads, last_started>>
    /\ UNCHANGED playing
    /\ UNCHANGED lifeVars
    /\ UNCHANGED <<seen, cue_plays>>
    /\ UNCHANGED unfinished_tasks
    /\ UNCHANGED otherVars

\* engine.create(sentence, voice=STATE["voice"], speed=STATE["speed"], ..):
\* the two fields are read when the call is made; synthesis may raise.
WorkerCreate(outcomes) ==
    /\ wpc = "create"
    /\ used' = [used EXCEPT !.voice = State.voice, !.speed = State.speed,
                            !.got = @ \cup {"voice", "speed"}]
    /\ \E ok \in outcomes :
         IF ok THEN /\ wpc' = "play"
                    /\ UNCHANGED <<consecutive_failures, notices>>
               ELSE Fail
    /\ UNCHANGED httpVars
    /\ UNCHANGED <<item, ducked, engine, at_dequeue, icon_image,
                   piper_loaded_path, piper_loads, last_started>>
    /\ UNCHANGED duckVars
    /\ UNCHANGED playing
    /\ UNCHANGED lifeVars
    /\ UNCHANGED <<seen, cue_plays>>
    /\ UNCHANGED unfinished_tasks
    /\ UNCHANGED otherVars

\* scaled = np.clip(samples * STATE["volume"], ..); sd.play(scaled, ..):
\* volume is read after synthesis has returned; play starts the device and
\* returns at once, or raises.
WorkerPlay(outcomes) ==
    /\ wpc = "play"
    /\ used' = [used EXCEPT !.volume = State.volume, !.got = @ \cup {"volume"}]
    /\ \E ok \in outcomes :
         IF ok THEN /\ playing' = item
                    /\ last_started' = item
                    /\ wpc' = "wait"
                    /\ UNCHANGED <<consecutive_failures, notices>>
               ELSE /\ Fail
                    /\ UNCHANGED <<playing, last_started>>
    /\ UNCHANGED httpVars
    /\ UNCHANGED <<item, ducked, engine, at_dequeue, icon_image,
                   piper_loaded_path, piper_loads>>
    /\ UNCHANGED duckVars
    /\ UNCHANGED lifeVars
    /\ UNCHANGED <<seen, cue_plays>>
    /\ UNCHANGED unfinished_tasks
    /\ UNCHANGED otherVars

\* The audio device reaches the end of the samples.
PlaybackEnds ==
    /\ playing # NoItem
    /\ playing' = NoItem
    /\ UNCHANGED httpVars
    /\ UNCHANGED workerVars
    /\ UNCHANGED duckVars
    /\ UNCHANGED lifeVars
    /\ UNCHANGED <<seen, cue_plays>>
    /\ UNCHANGED unfinished_tasks
    /\ UNCHANGED otherVars

\* sd.wait() returning although the device still plays (wait left out)
WaitReturnsAtOnce(dev) == TRUE

\* sd.wait() returns once the device plays nothing
WaitReturns(dev) == dev = NoItem

\* sd.wait()
WorkerWait ==
    /\ wpc = "wait"
    /\ WaitReturns(playing)
    /\ wpc' = "unduck"
    /\ UNCHANGED httpVars
    /\ UNCHANGED <<item, ducked, engine, used, at_dequeue, consecutive_failures,
                   notices, icon_image, piper_loaded_path, piper_loads,
                   last_started>>
    /\ UNCHANGED duckVars
    /\ UNCHANGED playing
    /\ UNCHANGED lifeVars
    /\ UNCHANGED <<seen, cue_plays>>
    /\ UNCHANGED unfinished_tasks
    /\ UNCHANGED otherVars

\* _ducker.unduck(); ducked = False; else: _consecutive_failures = 0 -- an
\* exception that leaves unduck() goes to `except Exception` with ducked
\* still True
WorkerUnduck(faults) ==
    /\ wpc = "unduck"
    /\ \E f \in faults :
         IF f = InitFault /\ is_ducked(saved)
            THEN /\ Fail
                 /\ UNCHANGED <<saved, sessions, duck_phase, ducked>>
            ELSE LET r == unduck(saved, sessions, f) IN
                 /\ saved' = r.saved
                 /\ sessions' = r.sessions
                 /\ duck_phase' = "restored"
                 /\ ducked' = FALSE
                 /\ consecutive_failures' = 0
                 /\ wpc' = "finally"
                 /\ UNCHANGED notices
    /\ UNCHANGED httpVars
    /\ UNCHANGED <<item, engine, used, at_dequeue, icon_image,
                   piper_loaded_path, piper_loads, last_started>>
    /\ UNCHANGED <<pre_duck, playing>>
    /\ UNCHANGED lifeVars
    /\ UNCHANGED <<seen, cue_plays>>
    /\ UNCHANGED unfinished_tasks
    /\ UNCHANGED otherVars

\* finally: unduck if ducked; STATE["speaking"] = False; idle icon;
\* TTS_QUEUE.task_done()
WorkerFinally(faults, swaps) ==
    /\ wpc = "finally"
    /\ IF ducked
          THEN /\ \E f \in faults :
                    LET r == unduck(saved, sessions, f) IN
                    /\ saved' = r.saved
                    /\ sessions' = r.sessions
               /\ duck_phase' = "restored"
          ELSE UNCHANGED <<saved, sessions, duck_phase>>
    /\ State' = [State EXCEPT !.speaking = FALSE]
    /\ \E ok \in swaps : icon_image' = swap_icon("idle", icon_image, ok)
    /\ wpc' = "get"
    /\ item' = NoItem
    /\ used' = NoUsed
    /\ at_dequeue' = State'
    /\ UNCHANGED <<phase, is_ready, TTS_QUEUE, http, ncalls, enq_count, burst, config_file>>
    /\ UNCHANGED <<ducked, engine, consecutive_failures,
                   notices, piper_loaded_path, piper_loads, last_started>>
    /\ UNCHANGED <<pre_duck, playing>>
    /\ UNCHANGED lifeVars
    /\ seen' = {}
    /\ unfinished_tasks' = task_done(unfinished_tasks)
    /\ UNCHANGED cue_plays
    /\ UNCHANGED otherVars

\* ------------------------------------------------------------------------
\* POST /config and config_loader.save_config
\* ------------------------------------------------------------------------
\* the fields of ConfigRequest, in the order model_dump() lists them
ConfigFields == <<"voice", "speed", "volume", "model", "muted", "pre_cue_path",
                  "post_cue_path", "piper_model_path", "speech_mode">>

ConfigFieldSet == {ConfigFields[i] : i \in 1..Len(ConfigFields)}

\* the keys save_config writes
PersistedKeys == {"voice", "speed", "volume", "model", "muted", "pre_cue_path",
                  "post_cue_path"}

\* save_config: the dict it dumps to config.json
Persisted(st) == [k \in PersistedKeys |-> st[k]]

\* config.json absent or unreadable: load_config() returns {}
NoConfig == [k \in {} |-> None]

\* ConfigRequest parsing and req.model_dump(exclude_none=True): the declared
\* fields the body sets; a field the model does not declare is dropped
model_dump(body) == [k \in DOMAIN body \cap ConfigFieldSet |-> body[k]]

\* the ranges ConfigRequest declares, in tenths: speed ge=0.5 le=2.0,
\* volume ge=0.0 le=1.0
SpeedMin == 5
SpeedMax == 20
VolumeMin == 0
VolumeMax == 10

\* a ConfigRequest without ranges
ConfigRequestAny(body) == TRUE

\* ConfigRequest validation: a value outside a declared range or outside
\* a Literal is answered 422 before update_config runs
ConfigRequestValid(body) ==
    /\ "speed" \in DOMAIN body => body.speed \in SpeedMin..SpeedMax
    /\ "volume" \in DOMAIN body => body.volume \in VolumeMin..VolumeMax
    /\ "model" \in DOMAIN body => body.model \in {"kokoro", "piper"}
    /\ "speech_mode" \in DOMAIN body => body.speech_mode \in {"auto", "semi-auto"}

\* index of the first field of the request at or after position i; 0: none
RECURSIVE NextField(_, _)
NextField(req, i) ==
    IF i > Len(ConfigFields) THEN 0
    ELSE IF ConfigFields[i] \in DOMAIN req THEN i
    ELSE NextField(req, i + 1)

UpdatedKeys(req) ==
    SelectSeq(ConfigFields, LAMBDA k : k \in DOMAIN req)

\* a write that also clears the speaking flag
ApplyUpdateClearsSpeaking(st, key, value) ==
    [st EXCEPT ![key] = value, !.speaking = FALSE]

\* if key in STATE: STATE[key] = value -- else the key is logged and ignored
ApplyUpdate(st, key, value) ==
    IF key \in DOMAIN st THEN [st EXCEPT ![key] = value] ELSE st

\* what is left in config.json.tmp when write_text fails half way
Partial(persisted) == [k \in {"voice"} |-> persisted[k]]

\* the ways the locked part of save_config can end
SaveOutcomes == {"ok", "write_fails", "replace_fails"}

\* save_config without the unlink of the temp file on failure
SaveLockedNoUnlink(file, persisted, outcome) ==
    IF outcome = "ok"
        THEN [file |-> persisted, tmp |-> NoConfig, raised |-> FALSE]
    ELSE IF outcome = "write_fails"
        THEN [file |-> file, tmp |-> Partial(persisted), raised |-> TRUE]
    ELSE [file |-> file, tmp |-> persisted, raised |-> TRUE]

\* save_config under _CONFIG_LOCK: write the temp file, replace config.json
\* by it; on an exception unlink the temp file and raise.  The lock makes
\* the section one step for every other saver.
SaveLocked(file, persisted, outcome) ==
    IF outcome = "ok"
        THEN [file |-> persisted, tmp |-> NoConfig, raised |-> FALSE]
        ELSE [file |-> file, tmp |-> NoConfig, raised |-> TRUE]

\* updates = req.model_dump(exclude_none=True); the empty request returns
UpdateConfigBegin(limit, requests) ==
    /\ phase = "serving"
    /\ http.op = "idle"
    /\ ncalls < limit
    /\ ncalls' = ncalls + 1
    /\ \E body \in requests :
         LET req == model_dump(body) IN
         IF ~ConfigRequestValid(body)
            THEN http' = [Idle EXCEPT !.call = ncalls + 1, !.updates = req,
                            !.resp = [code |-> 422]]
         ELSE IF DOMAIN req = {}
            THEN http' = [Idle EXCEPT !.call = ncalls + 1,
                            !.resp = [code |-> 200, status |-> "ok", updated |-> <<>>]]
            ELSE http' = [Idle EXCEPT !.op = "config", !.call = ncalls + 1,
                            !.updates = req, !.i = NextField(req, 1)]
    /\ UNCHANGED <<phase, is_ready, TTS_QUEUE, State, enq_count, burst, config_file>>
    /\ UNCHANGED workerVars
    /\ UNCHANGED duckVars
    /\ UNCHANGED playing
    /\ UNCHANGED lifeVars
    /\ UNCHANGED <<seen, cue_plays>>
    /\ UNCHANGED unfinished_tasks
    /\ UNCHANGED otherVars

\* one iteration of `for key, value in updates.items()`: STATE[key] = value
UpdateConfigWrite ==
    /\ http.op = "config"
    /\ LET key == ConfigFields[http.i]
           nxt == NextField(http.updates, http.i + 1)
       IN  /\ State' = ApplyUpdate(State, key, http.updates[key])
           /\ http' = IF nxt = 0 THEN [http EXCEPT !.op = "config_capture"]
                                 ELSE [http EXCEPT !.i = nxt]
    /\ UNCHANGED <<phase, is_ready, TTS_QUEUE, ncalls, enq_count, burst, config_file>>
    /\ UNCHANGED workerVars
    /\ UNCHANGED duckVars
    /\ UNCHANGED playing
    /\ UNCHANGED lifeVars
    /\ seen' = IF item # NoItem THEN seen \cup {WorkerFields(State')} ELSE seen
    /\ UNCHANGED cue_plays
    /\ UNCHANGED unfinished_tasks
    /\ UNCHANGED otherVars

\* save_config(STATE), first part: the persisted dict is built from STATE
\* before _CONFIG_LOCK is taken
UpdateConfigCapture ==
    /\ http.op = "config_capture"
    /\ http' = [http EXCEPT !.op = "config_save", !.persisted = Persisted(State)]
    /\ UNCHANGED <<phase, is_ready, TTS_QUEUE, State, ncalls, enq_count, burst,
                   config_file>>
    /\ UNCHANGED workerVars
    /\ UNCHANGED duckVars
    /\ UNCHANGED playing
    /\ UNCHANGED lifeVars
    /\ UNCHANGED <<seen, cue_plays>>
    /\ UNCHANGED unfinished_tasks
    /\ UNCHANGED otherVars

\* save_config(STATE), locked part, and the response: 500 when it raises
\* OSError
UpdateConfigSave(outcomes) ==
    /\ http.op = "config_save"
    /\ \E outcome \in outcomes :
         LET r == SaveLocked(config_file, http.persisted, outcome) IN
         /\ config_file' = r.file
         /\ tmp_file' = r.tmp
         /\ last_save' = IF r.raised THEN "failed" ELSE "ok"
         /\ http' = [Idle EXCEPT
                       !.call = http.call, !.updates = http.updates,
                       !.resp = IF r.raised
                                   THEN [code |-> 500, status |-> "error",
                                         reason |-> "config save failed"]
                                   ELSE [code |-> 200, status |-> "ok",
                                         updated |-> UpdatedKeys(http.updates)]]
    /\ UNCHANGED <<phase, is_ready, TTS_QUEUE, State, ncalls, enq_count, burst>>
    /\ UNCHANGED workerVars
    /\ UNCHANGED duckVars
    /\ UNCHANGED playing
    /\ UNCHANGED <<tray, pid_file, pid, launches, second, pre_restart>>
    /\ UNCHANGED <<seen, cue_plays>>
    /\ UNCHANGED unfinished_tasks
    /\ UNCHANGED otherVars

\* ------------------------------------------------------------------------
\* Startup: main() and the lifespan hook
\* ------------------------------------------------------------------------
\* main(): STATE[key] = cfg[key] for the keys of config.json that are set
Restore(cfg) ==
    [k \in DOMAIN DefaultState |-> IF k \in DOMAIN cfg THEN cfg[k]
                                   ELSE DefaultState[k]]

\* _lifespan: load and warm up Kokoro, is_ready = True, start the worker
\* thread, play the startup audio; on an exception before is_ready the
\* service serves without engine and without worker.
Lifespan ==
    /\ phase = "startup"
    /\ phase' = "serving"
    /\ \E loaded \in BOOLEAN :
         IF loaded
            THEN /\ is_ready' = TRUE
                 /\ wpc' = "get"
            ELSE /\ is_ready' = FALSE
                 /\ wpc' = "off"
    /\ UNCHANGED <<TTS_QUEUE, State, http, ncalls, enq_count, burst, config_file>>
    /\ UNCHANGED <<item, ducked, engine, used, at_dequeue, consecutive_failures,
                   notices, icon_image, piper_loaded_path, piper_loads,
                   last_started>>
    /\ UNCHANGED duckVars
    /\ UNCHANGED playing
    /\ UNCHANGED lifeVars
    /\ UNCHANGED <<seen, cue_plays>>
    /\ UNCHANGED unfinished_tasks
    /\ UNCHANGED otherVars

TrayIdle == [pc |-> "idle", persisted |-> NoConfig]
\* no text has been given to the preprocessor
NoText == [text |-> <<>>, ran |-> "none", raised |-> FALSE, out |-> <<>>,
           stripped |-> <<>>]
\* POST /stop has not been called
NoStop == [wpc |-> "none", ducked |-> FALSE]
\* what a hook finds on stdin: bytes that are not UTF-8 ("bad_utf8"), text
\* that is not JSON ("bad_json"), JSON that is not an object ("array"), or
\* an object with these keys
Stdin(form, active, message, transcript, source) ==
    [form |-> form, stop_hook_active |-> active,
     last_assistant_message |-> message, transcript_path |-> transcript,
     source |-> source]
NoStdin == Stdin("none", FALSE, "", "", "")
\* Bound: processes started together
MaxSupervisors == 3
Supervisors == 1..MaxSupervisors
\* none of them has been started
NoSup == [p \in Supervisors |-> "none"]
\* the lifespan hook has not begun
NoLifespan == [pc |-> "start", load |-> "pending", create |-> 0, play |-> 0]
\* no hook process has run
NoHook == [kind |-> "none", stdin |-> NoStdin, exit |-> 0, posted |-> FALSE,
           launched |-> FALSE, runs |-> 0]
NoSecond == [outcome |-> "none", code |-> 0]
NoRestart == [state |-> DefaultState, synced |-> FALSE, pid |-> 0]

\* The service in phase ph: "down" with PID file pidf and no process yet
\* (me = 0), or "startup" with the process me holding the PID lock.
InitService(ph, pidf, me, cfg, sess) ==
    /\ sup = NoSup
    /\ lifespan = NoLifespan
    /\ phase = ph
    /\ is_ready = FALSE
    /\ TTS_QUEUE = <<>>
    /\ config_file = cfg
    /\ State = (IF ph = "down" THEN DefaultState ELSE Restore(cfg))
    /\ http = Idle
    /\ ncalls = 0
    /\ enq_count = 0
    /\ burst = [m |-> 0, queued |-> 0, dropped |-> 0, cued |-> 0]
    /\ wpc = "off"
    /\ item = NoItem
    /\ ducked = FALSE
    /\ engine = None
    /\ used = NoUsed
    /\ at_dequeue = State
    /\ consecutive_failures = 0
    /\ notices = 0
    /\ icon_image = "idle"
    /\ piper_loaded_path = None
    /\ piper_loads = 0
    /\ saved = EmptySaved
    /\ sessions = sess
    /\ pre_duck = sess
    /\ duck_phase = "idle"
    /\ playing = NoItem
    /\ last_started = NoItem
    /\ tmp_file = NoConfig
    /\ tray = TrayIdle
    /\ last_save = "none"
    /\ pid_file = pidf
    /\ pid = me
    /\ launches = me
    /\ second = NoSecond
    /\ pre_restart = NoRestart
    /\ seen = {}
    /\ cue_plays = 0
    /\ unfinished_tasks = 0
    /\ at_stop = NoStop

\* The machine with the service in phase ph; no text is at the
\* preprocessor and no hook has run.
InitAt(ph, pidf, me, cfg, sess) ==
    /\ InitService(ph, pidf, me, cfg, sess)
    /\ pp = NoText
    /\ hook = NoHook

\* The first process of a run, once main() has taken the PID lock and
\* restored config.json, before the lifespan hook.
InitWith(cfg, sess) == InitAt("startup", 1, 1, cfg, sess)

Session(proc, vol, status) == [proc |-> proc, vol |-> vol, status |-> status]

\* config.json files the service may start from
StartConfigs ==
    { NoConfig,
      [model |-> "piper", piper_model_path |-> "lessac.onnx"],
      [muted |-> TRUE] }

\* one browser session at full volume, the rest not there yet
QuietMixer ==
    [k \in SessionIds |->
        IF k = 1 THEN Session("chrome.exe", FullVolume, "present")
                 ELSE Session("spotify.exe", FullVolume \div 2, "future")]

Init == \E cfg \in StartConfigs : InitWith(cfg, QuietMixer)

\* The service with a healthy mixer, engine and disk: /speak requests, the
\* worker and the audio device.
Next ==
    \/ Lifespan
    \/ SpeakBegin(MaxCalls, MaxSentences)
    \/ SpeakPut
    \/ WorkerGet
    \/ WorkerCheck({TRUE})
    \/ WorkerResolve
    \/ WorkerResolvePath({TRUE})
    \/ WorkerDuck(NoFaults)
    \/ WorkerCreate({TRUE})
    \/ WorkerPlay({TRUE})
    \/ PlaybackEnds
    \/ WorkerWait
    \/ WorkerUnduck(NoFaults)
    \/ WorkerFinally(NoFaults, {TRUE})

Spec == Init /\ [][Next]_vars

\* ------------------------------------------------------------------------
\* The service with faults: pycaw, the engines and the disk may fail, the
\* mixer changes, and POST /config runs beside the worker.
\* ------------------------------------------------------------------------
\* bodies of POST /config: empty, with a field ConfigRequest does not
\* declare, with one field, with two fields
ConfigRequests ==
    { NoConfig,
      [verbose |-> "yes"],
      [voice |-> "bm_george"],
      [speed |-> 20, volume |-> 5],
      [model |-> "piper", piper_model_path |-> "lessac.onnx"] }

\* mixers the service may start beside: two sessions of one browser at
\* different volumes; the service's own session, a session without a
\* process and a player; a silent player beside browser sessions
SharedNameMixer ==
    [k \in SessionIds |->
        IF k = 1 THEN Session("chrome.exe", FullVolume, "present")
        ELSE IF k = 2 THEN Session("chrome.exe", FullVolume \div 2, "present")
        ELSE Session("spotify.exe", FullVolume \div 2, "future")]

OwnAndSystemMixer ==
    [k \in SessionIds |->
        IF k = 1 THEN Session("python.exe", FullVolume, "present")
        ELSE IF k = 2 THEN Session(None, FullVolume, "present")
        ELSE Session("spotify.exe", FullVolume \div 2, "present")]

SilentPlayerMixer ==
    [k \in SessionIds |->
        IF k = 1 THEN Session("spotify.exe", 0, "present")
        ELSE IF k = 2 THEN Session("chrome.exe", FullVolume, "present")
        ELSE Session("chrome.exe", FullVolume \div 2, "future")]

Mixers == {QuietMixer, SharedNameMixer, OwnAndSystemMixer, SilentPlayerMixer}

InitFaults == InitWith(NoConfig, QuietMixer)

NextFaults ==
    \/ Lifespan
    \/ SpeakBegin(MaxFaultCalls, MaxFaultSentences)
    \/ SpeakPut
    \/ UpdateConfigBegin(MaxFaultCalls, ConfigRequests)
    \/ UpdateConfigWrite
    \/ UpdateConfigCapture
    \/ UpdateConfigSave(SaveOutcomes)
    \/ WorkerGet
    \/ WorkerCheck({TRUE})
    \/ WorkerResolve
    \/ WorkerResolvePath(BOOLEAN)
    \/ WorkerDuck(DuckFaults)
    \/ WorkerCreate(BOOLEAN)
    \/ WorkerPlay(BOOLEAN)
    \/ PlaybackEnds
    \/ WorkerWait
    \/ WorkerUnduck(DuckFaults)
    \/ WorkerFinally(DuckFaults, {TRUE})

SpecFaults == InitFaults /\ [][NextFaults]_vars

\* ------------------------------------------------------------------------
\* The ducker against a changing mixer: sessions appear and end while the
\* worker ducks and unducks; pycaw itself does not fail here.
\* ------------------------------------------------------------------------
\* Bound: /speak calls in these runs, each with a text of one sentence
MaxDuckCalls == 1

InitDuck == \E sess \in Mixers : InitWith(NoConfig, sess)

NextDuck ==
    \/ Lifespan
    \/ SpeakBegin(MaxDuckCalls, 1)
    \/ SpeakPut
    \/ WorkerGet
    \/ WorkerCheck({TRUE})
    \/ WorkerResolve
    \/ WorkerDuck(NoFaults)
    \/ WorkerCreate(BOOLEAN)
    \/ WorkerPlay({TRUE})
    \/ PlaybackEnds
    \/ WorkerWait
    \/ WorkerUnduck(NoFaults)
    \/ WorkerFinally(NoFaults, {TRUE})
    \/ SessionAppears
    \/ SessionDisappears

SpecDuck == InitDuck /\ [][NextDuck]_vars

\* ------------------------------------------------------------------------
\* The service started with both cue paths configured.
\* ------------------------------------------------------------------------
\* Bounds: /speak calls and sentences of one text in these runs
MaxCueCalls == 2
MaxCueSentences == 2

CueConfig == [pre_cue_path |-> "ding.wav", post_cue_path |-> "done.wav"]

InitCues == InitWith(CueConfig, QuietMixer)

NextCues ==
    \/ Lifespan
    \/ SpeakBegin(MaxCueCalls, MaxCueSentences)
    \/ SpeakPut
    \/ WorkerGet
    \/ WorkerCheck({TRUE})
    \/ WorkerResolve
    \/ WorkerDuck(NoFaults)
    \/ WorkerCreate({TRUE})
    \/ WorkerPlay({TRUE})
    \/ PlaybackEnds
    \/ WorkerWait
    \/ WorkerUnduck(NoFaults)
    \/ WorkerFinally(NoFaults, {TRUE})

SpecCues == InitCues /\ [][NextCues]_vars

\* ------------------------------------------------------------------------
\* The process: PID lock, launch and exit, GET /health, POST /stop, and the
\* tray thread beside POST /config.
\* ------------------------------------------------------------------------
\* Bounds: processes launched, and POST /config requests, in these runs
MaxLaunches == 3
MaxLifeCalls == 1

\* contents of the PID file: absent, not a number, a pid left by an earlier
\* boot
Absent == 0
Corrupt == -1
StalePid == 99
PidFiles == {Absent, Corrupt, StalePid}

\* "python" in proc.name().lower(), for the names of the model
PythonNames == {"python.exe", "pythonw.exe"}
IsPython(name) == name \in PythonNames

\* what psutil reports for a pid: pid_exists, Process(pid) raising
\* NoSuchProcess or AccessDenied, proc.name()
Proc(alive, denied, name) == [alive |-> alive, denied |-> denied, name |-> name]

\* the service itself, and what may hold the pid named by a stale PID file:
\* nothing, a process psutil may not inspect, another program, an unrelated
\* Python program
ServiceProc == Proc(TRUE, FALSE, "pythonw.exe")
StaleOwners ==
    { Proc(FALSE, FALSE, None), Proc(TRUE, TRUE, None),
      Proc(TRUE, FALSE, "chrome.exe"), Proc(TRUE, FALSE, "python.exe") }

\* acquire_pid_lock that takes the lock whatever the PID file says
AcquireUnchecked(file, owner, me) == [exit |-> FALSE, file |-> me]

\* acquire_pid_lock: sys.exit(0) when the PID file names a live Python
\* process; otherwise the file is (re)written with the own pid
acquire_pid_lock(file, owner, me) ==
    IF file # Absent /\ file # Corrupt /\ owner.alive /\ ~owner.denied
          /\ IsPython(owner.name)
        THEN [exit |-> TRUE, file |-> file]
        ELSE [exit |-> FALSE, file |-> me]

\* load_config(): the dict in config.json, {} when it is absent
load_config(file) == file

\* main() of a process started while no service runs: PID lock, then the
\* restore loop over config.json.  Module state is as at import.
Launch ==
    /\ phase = "down"
    /\ launches < MaxLaunches
    /\ launches' = launches + 1
    /\ \E owner \in StaleOwners :
         LET r == acquire_pid_lock(pid_file, owner, launches + 1) IN
         IF r.exit
            THEN UNCHANGED <<phase, pid_file, pid, State, at_dequeue>>
            ELSE /\ phase' = "startup"
                 /\ pid_file' = r.file
                 /\ pid' = launches + 1
                 /\ State' = Restore(load_config(config_file))
                 /\ at_dequeue' = State'
    /\ UNCHANGED <<is_ready, TTS_QUEUE, http, ncalls, enq_count, burst, config_file>>
    /\ UNCHANGED <<wpc, item, ducked, engine, used, consecutive_failures, notices,
                   icon_image, piper_loaded_path, piper_loads, last_started>>
    /\ UNCHANGED duckVars
    /\ UNCHANGED playing
    /\ UNCHANGED <<tmp_file, tray, last_save, second, pre_restart>>
    /\ UNCHANGED <<seen, cue_plays>>
    /\ UNCHANGED unfinished_tasks
    /\ UNCHANGED otherVars

\* main() of a process started while the service runs and holds the lock
SecondLaunch ==
    /\ phase \in {"startup", "serving"}
    /\ launches < MaxLaunches
    /\ launches' = launches + 1
    /\ LET r == acquire_pid_lock(pid_file, ServiceProc, launches + 1) IN
         /\ pid_file' = r.file
         /\ second' = [outcome |-> IF r.exit THEN "exit" ELSE "running",
                       code |-> 0]
    /\ UNCHANGED httpVars
    /\ UNCHANGED workerVars
    /\ UNCHANGED duckVars
    /\ UNCHANGED playing
    /\ UNCHANGED <<tmp_file, tray, last_save, pid, pre_restart>>
    /\ UNCHANGED <<seen, cue_plays>>
    /\ UNCHANGED unfinished_tasks
    /\ UNCHANGED otherVars

\* a health answer that does not look at is_ready
HealthAlwaysOk(ready) == [code |-> 200, status |-> "ok"]

\* health(): 503 initializing unless is_ready
HealthResponse(ready) ==
    IF ~ready THEN [code |-> 503, status |-> "initializing"]
              ELSE [code |-> 200, status |-> "ok"]

\* GET /health
Health ==
    /\ phase = "serving"
    /\ http.op = "idle"
    /\ http' = [Idle EXCEPT !.call = http.call, !.resp = HealthResponse(is_ready)]
    /\ UNCHANGED <<phase, is_ready, TTS_QUEUE, State, ncalls, enq_count, burst,
                   config_file>>
    /\ UNCHANGED workerVars
    /\ UNCHANGED duckVars
    /\ UNCHANGED playing
    /\ UNCHANGED lifeVars
    /\ UNCHANGED <<seen, cue_plays>>
    /\ UNCHANGED unfinished_tasks
    /\ UNCHANGED otherVars

\* POST /stop: sd.stop(), start the thread that exits in 100 ms, answer
StopService ==
    /\ phase = "serving"
    /\ http.op = "idle"
    /\ phase' = "stopping"
    /\ playing' = NoItem
    /\ http' = [Idle EXCEPT !.call = http.call,
                            !.resp = [code |-> 200, status |-> "stopped"]]
    /\ UNCHANGED <<is_ready, TTS_QUEUE, State, ncalls, enq_count, burst, config_file>>
    /\ UNCHANGED workerVars
    /\ UNCHANGED duckVars
    /\ UNCHANGED lifeVars
    /\ UNCHANGED <<seen, cue_plays>>
    /\ UNCHANGED unfinished_tasks
    /\ at_stop' = [wpc |-> wpc, ducked |-> ducked]
    /\ UNCHANGED toolVars

\* os._exit(0): the process ends at once; atexit handlers do not run, the
\* files stay as they are, the memory of the process is gone
ExitProcess ==
    /\ phase' = "down"
    /\ pid' = 0
    /\ pre_restart' = [state |-> State,
                       synced |-> /\ last_save = "ok"
                                  /\ http.op = "idle"
                                  /\ tray.pc = "idle"
                                  /\ config_file = Persisted(State),
                       pid |-> pid]
    /\ is_ready' = FALSE
    /\ TTS_QUEUE' = <<>>
    /\ State' = DefaultState
    /\ http' = Idle
    /\ wpc' = "off"
    /\ item' = NoItem
    /\ ducked' = FALSE
    /\ engine' = None
    /\ used' = NoUsed
    /\ at_dequeue' = DefaultState
    /\ consecutive_failures' = 0
    /\ icon_image' = "idle"
    /\ piper_loaded_path' = None
    /\ playing' = NoItem
    /\ tray' = TrayIdle
    /\ last_save' = "none"
    /\ second' = NoSecond
    /\ seen' = {}
    /\ unfinished_tasks' = 0
    /\ at_stop' = NoStop
    /\ UNCHANGED toolVars
    /\ UNCHANGED <<ncalls, enq_count, burst, notices, piper_loads, last_started,
                   pre_duck, duck_phase, config_file, tmp_file, pid_file,
                   launches, cue_plays>>

\* the thread started by POST /stop: time.sleep(0.1); os._exit(0)
StopExit ==
    /\ phase = "stopping"
    /\ ExitProcess
    /\ saved' = EmptySaved
    /\ UNCHANGED sessions

\* tray Quit: _on_quit() restores ducked sessions, then os._exit(0)
TrayQuit ==
    /\ phase \in {"startup", "serving"}
    /\ tray.pc = "idle"
    /\ ExitProcess
    /\ sessions' = unduck(saved, sessions, NoFault).sessions
    /\ saved' = EmptySaved

\* tray Mute: state["muted"] = not state["muted"]; _on_mute_change stops
\* the audio when muting and goes on to save_config(STATE)
TrayToggleMute ==
    /\ phase \in {"startup", "serving"}
    /\ tray.pc = "idle"
    /\ State' = [State EXCEPT !.muted = ~State.muted]
    /\ playing' = IF State'.muted THEN NoItem ELSE playing
    /\ tray' = [tray EXCEPT !.pc = "capture"]
    /\ UNCHANGED <<phase, is_ready, TTS_QUEUE, http, ncalls, enq_count, burst,
                   config_file>>
    /\ UNCHANGED workerVars
    /\ UNCHANGED duckVars
    /\ UNCHANGED <<tmp_file, last_save, pid_file, pid, launches, second,
                   pre_restart>>
    /\ UNCHANGED <<seen, cue_plays>>
    /\ UNCHANGED unfinished_tasks
    /\ UNCHANGED otherVars

\* save_config(STATE) on the tray thread, first part: the persisted dict
TrayCapture ==
    /\ tray.pc = "capture"
    /\ tray' = [pc |-> "save", persisted |-> Persisted(State)]
    /\ UNCHANGED httpVars
    /\ UNCHANGED workerVars
    /\ UNCHANGED duckVars
    /\ UNCHANGED playing
    /\ UNCHANGED <<tmp_file, last_save, pid_file, pid, launches, second,
                   pre_restart>>
    /\ UNCHANGED <<seen, cue_plays>>
    /\ UNCHANGED unfinished_tasks
    /\ UNCHANGED otherVars

\* save_config(STATE) on the tray thread, locked part; OSError is logged
TraySave(outcomes) ==
    /\ tray.pc = "save"
    /\ \E outcome \in outcomes :
         LET r == SaveLocked(config_file, tray.persisted, outcome) IN
         /\ config_file' = r.file
         /\ tmp_file' = r.tmp
         /\ last_save' = IF r.raised THEN "failed" ELSE "ok"
    /\ tray' = TrayIdle
    /\ UNCHANGED <<phase, is_ready, TTS_QUEUE, State, http, ncalls, enq_count, burst>>
    /\ UNCHANGED workerVars
    /\ UNCHANGED duckVars
    /\ UNCHANGED playing
    /\ UNCHANGED <<pid_file, pid, launches, second, pre_restart>>
    /\ UNCHANGED <<seen, cue_plays>>
    /\ UNCHANGED unfinished_tasks
    /\ UNCHANGED otherVars

\* bodies of POST /config in these runs
LifeRequests ==
    { [voice |-> "bm_george"],
      [model |-> "piper", piper_model_path |-> "lessac.onnx"] }

\* a machine on which the service is not running
InitLife == \E pidf \in PidFiles : InitAt("down", pidf, 0, NoConfig, QuietMixer)

NextLife ==
    \/ Launch
    \/ SecondLaunch
    \/ Lifespan
    \/ Health
    \/ UpdateConfigBegin(MaxLifeCalls, LifeRequests)
    \/ UpdateConfigWrite
    \/ UpdateConfigCapture
    \/ UpdateConfigSave(SaveOutcomes)
    \/ TrayToggleMute
    \/ TrayCapture
    \/ TraySave(SaveOutcomes)
    \/ StopService
    \/ StopExit
    \/ TrayQuit

SpecLife == InitLife /\ [][NextLife]_vars

\* ------------------------------------------------------------------------
\* The worker with every step failing at will: engine resolution, duck,
\* synthesis, playback, unduck and the icon; the thread is scheduled
\* fairly and the audio device reaches the end of what it plays.
\* ------------------------------------------------------------------------
\* Bounds: /speak calls and sentences of one text in these runs
MaxWorkerCalls == 1
MaxWorkerSentences == 2

\* pycaw faults and CoInitialize raising
WorkerFaults == DuckFaults \cup {InitFault}

\* config.json files of these runs: also piper selected without a path
WorkerConfigs == StartConfigs \cup {[model |-> "piper"]}

InitWorker == \E cfg \in WorkerConfigs : InitWith(cfg, QuietMixer)

\* the steps of the tts-worker thread
WorkerSteps ==
    \/ WorkerGet
    \/ WorkerCheck(BOOLEAN)
    \/ WorkerResolve
    \/ WorkerResolvePath(BOOLEAN)
    \/ WorkerDuck(WorkerFaults)
    \/ WorkerCreate(BOOLEAN)
    \/ WorkerPlay(BOOLEAN)
    \/ WorkerWait
    \/ WorkerUnduck(WorkerFaults)
    \/ WorkerFinally(WorkerFaults, BOOLEAN)

NextWorker ==
    \/ Lifespan
    \/ SpeakBegin(MaxWorkerCalls, MaxWorkerSentences)
    \/ SpeakPut
    \/ WorkerSteps
    \/ PlaybackEnds

SpecWorker ==
    /\ InitWorker
    /\ [][NextWorker]_vars
    /\ WF_vars(WorkerSteps)
    /\ WF_vars(PlaybackEnds)

\* ------------------------------------------------------------------------
\* POST /stop beside the worker: healthy mixer, engine and device.
\* ------------------------------------------------------------------------
\* Bounds: /speak calls and sentences of one text in these runs
MaxStopCalls == 1
MaxStopSentences == 2

InitStop == InitWith(NoConfig, QuietMixer)

NextStop ==
    \/ Lifespan
    \/ SpeakBegin(MaxStopCalls, MaxStopSentences)
    \/ SpeakPut
    \/ WorkerGet
    \/ WorkerCheck({TRUE})
    \/ WorkerResolve
    \/ WorkerDuck(NoFaults)
    \/ WorkerCreate({TRUE})
    \/ WorkerPlay({TRUE})
    \/ PlaybackEnds
    \/ WorkerWait
    \/ WorkerUnduck(NoFaults)
    \/ WorkerFinally(NoFaults, {TRUE})
    \/ StopService
    \/ StopExit

SpecStop == InitStop /\ [][NextStop]_vars

\* ------------------------------------------------------------------------
\* preprocessor: strip_markdown, segment_sentences, is_speakable, preprocess
\* ------------------------------------------------------------------------
\* Bound: characters of a text
MaxLen == 5

\* A text is a sequence of characters.  The characters of these runs: a
\* letter, a digit, the space, the newline, the full stop and the hash.  No
\* backtick, bracket, URL or emphasis marker is among them, so steps 1-4
\* and 6 of strip_markdown leave these texts as they are.
Chars == {"a", "1", " ", "\n", ".", "#"}
Texts == UNION {[1..n -> Chars] : n \in 0..MaxLen}

\* \s of the regular expressions and the characters str.strip() removes
Spaces == {" ", "\n"}
IsSpace(c) == c \in Spaces

\* str.isalpha() of one character
isalpha(c) == c = "a"

RECURSIVE LStrip(_)
LStrip(s) == IF s # <<>> /\ IsSpace(Head(s)) THEN LStrip(Tail(s)) ELSE s

RECURSIVE RStrip(_)
RStrip(s) ==
    IF s # <<>> /\ IsSpace(s[Len(s)]) THEN RStrip(SubSeq(s, 1, Len(s) - 1))
    ELSE s

\* str.strip()
strip(s) == RStrip(LStrip(s))

\* how many characters of s from position i on lie in set, without a gap
RECURSIVE RunLength(_, _, _)
RunLength(s, i, set) ==
    IF i <= Len(s) /\ s[i] \in set THEN 1 + RunLength(s, i + 1, set) ELSE 0

\* ^ under re.MULTILINE: the start of the text or just after a newline
AtLineStart(s, i) == i = 1 \/ s[i - 1] = "\n"

\* re.sub(r"^M{1,most}\s+", "", s, flags=re.MULTILINE) from position i on,
\* M a character of marks: a run of 1..most marks at a line start with
\* white space after it goes, together with all of that white space
RECURSIVE StripLinePrefixFrom(_, _, _, _)
StripLinePrefixFrom(s, i, marks, most) ==
    IF i > Len(s) THEN <<>>
    ELSE LET k == RunLength(s, i, marks)
             w == RunLength(s, i + k, Spaces)
         IN  IF AtLineStart(s, i) /\ k >= 1 /\ k <= most /\ w >= 1
                THEN StripLinePrefixFrom(s, i + k + w, marks, most)
                ELSE <<s[i]>> \o StripLinePrefixFrom(s, i + 1, marks, most)

\* re.sub(r"\s+", " ", s) from position i on
RECURSIVE CollapseFrom(_, _)
CollapseFrom(s, i) ==
    IF i > Len(s) THEN <<>>
    ELSE IF IsSpace(s[i])
        THEN <<" ">> \o CollapseFrom(s, i + RunLength(s, i, Spaces))
    ELSE <<s[i]>> \o CollapseFrom(s, i + 1)

\* strip_markdown: 5. ATX headers, 7. blockquotes, 8. list bullets,
\* 9. white space runs to one space, then strip()
strip_markdown(text) ==
    LET headers == StripLinePrefixFrom(text, 1, {"#"}, 6)
        quotes == StripLinePrefixFrom(headers, 1, {">"}, 1)
        bullets == StripLinePrefixFrom(quotes, 1, {"-", "*", "+"}, 1)
    IN  strip(CollapseFrom(bullets, 1))

\* re.split(r"\n{2,}", s) from position i on, cur the piece begun
RECURSIVE SplitFrom(_, _, _)
SplitFrom(s, i, cur) ==
    IF i > Len(s) THEN <<cur>>
    ELSE LET n == RunLength(s, i, {"\n"}) IN
         IF n >= 2 THEN <<cur>> \o SplitFrom(s, i + n, <<>>)
                   ELSE SplitFrom(s, i + 1, Append(cur, s[i]))

\* the pieces of s from position i on, a piece ending at every position
\* of cuts and at the end of s
RECURSIVE CutFrom(_, _, _)
CutFrom(s, i, cuts) ==
    IF i > Len(s) THEN <<>>
    ELSE LET ends == {j \in cuts : j >= i} \cup {Len(s)}
             e == CHOOSE j \in ends : \A x \in ends : j <= x
         IN  <<SubSeq(s, i, e)>> \o CutFrom(s, e + 1, cuts)

\* pysbd.Segmenter(language="en", clean=False).segment(s): the text cut
\* into sentences at the boundaries pysbd finds, white space kept; which
\* boundaries it finds is pysbd's business, so every cutting is possible
Segmentations(s) == {CutFrom(s, 1, cuts) : cuts \in SUBSET (1..(Len(s) - 1))}

\* segment_sentences: [] for a blank text, else what pysbd returns -- or
\* the exception pysbd raises
segment_sentences(text) ==
    IF strip(text) = <<>>
        THEN {[raised |-> FALSE, out |-> <<>>]}
        ELSE {[raised |-> TRUE, out |-> <<>>]}
                \cup {[raised |-> FALSE, out |-> seg] : seg \in Segmentations(text)}

\* a filter that lets pass whatever has a letter
IsSpeakableAnyLetter(sentence) ==
    \E i \in DOMAIN sentence : isalpha(sentence[i])

\* is_speakable: alpha_count / len(cleaned) >= 0.40 of the stripped
\* sentence, False for a blank one
is_speakable(sentence) ==
    LET cleaned == strip(sentence)
        alpha_count == Cardinality({i \in DOMAIN cleaned : isalpha(cleaned[i])})
    IN  IF cleaned = <<>> THEN FALSE
        ELSE alpha_count * 100 >= 40 * Len(cleaned)

\* [s.strip() for s in sentences if is_speakable(s)]
KeepSpeakable(sentences) ==
    LET kept == SelectSeq(sentences, is_speakable)
    IN  [i \in 1..Len(kept) |-> strip(kept[i])]

\* the loop of preprocess over the paragraphs from the i-th on: every
\* result it can have, an exception of the segmenter passing through
RECURSIVE PreprocessFrom(_, _)
PreprocessFrom(paragraphs, i) ==
    IF i > Len(paragraphs) THEN {[raised |-> FALSE, out |-> <<>>]}
    ELSE LET cleaned == strip_markdown(paragraphs[i]) IN
         IF cleaned = <<>> THEN PreprocessFrom(paragraphs, i + 1)
         ELSE UNION {
                 IF seg.raised THEN {[raised |-> TRUE, out |-> <<>>]}
                 ELSE { IF rest.raised THEN rest
                        ELSE [raised |-> FALSE,
                              out |-> KeepSpeakable(seg.out) \o rest.out]
                        : rest \in PreprocessFrom(paragraphs, i + 1) }
                 : seg \in segment_sentences(cleaned) }

\* preprocess(text): paragraphs = re.split(r"\n{2,}", text), then the loop
preprocess(text) == PreprocessFrom(SplitFrom(text, 1, <<>>), 1)

\* everything but the preprocessor
serviceVars == <<httpVars, workerVars, duckVars, lifeVars, playing, seen,
                 cue_plays, unfinished_tasks, hook, at_stop, sup, lifespan>>

\* preprocess(text) is called
Preprocess ==
    /\ pp.ran = "none"
    /\ \E r \in preprocess(pp.text) :
         pp' = [pp EXCEPT !.ran = "preprocess", !.raised = r.raised, !.out = r.out]
    /\ UNCHANGED serviceVars

\* strip_markdown(text) is called
StripMarkdown ==
    /\ pp.ran = "none"
    /\ pp' = [pp EXCEPT !.ran = "strip_markdown",
                        !.stripped = strip_markdown(pp.text)]
    /\ UNCHANGED serviceVars

\* a text of at most MaxLen characters, nothing called yet
InitText ==
    /\ InitService("down", Absent, 0, NoConfig, QuietMixer)
    /\ hook = NoHook
    /\ \E t \in Texts : pp = [NoText EXCEPT !.text = t]

NextText ==
    \/ Preprocess
    \/ StripMarkdown

SpecText == InitText /\ [][NextText]_vars

\* ------------------------------------------------------------------------
\* The hook scripts: each run is a process of its own that reads stdin and
\* config.json or the PID file, and may POST to /speak or start the service.
\* ------------------------------------------------------------------------
\* Bounds: hook runs and POST /config calls in these runs
MaxHookRuns == 2
MaxHookCalls == 2

MIN_CHARS == 80

\* exit status of a Python process ended by an exception nobody caught
UncaughtExit == 1

Malformed == {Stdin("bad_utf8", FALSE, "", "", ""), Stdin("bad_json", FALSE, "", "", "")}
NotAnObject == Stdin("array", FALSE, "", "", "")

\* stdin of the Stop hook: last_assistant_message null, empty or a text
StopInputs ==
    Malformed \cup {NotAnObject}
        \cup {Stdin("object", a, m, "", "") : a \in BOOLEAN, m \in {None, "", "Done."}}

\* stdin of the PostToolUse hook: without and with a transcript path
PostToolUseInputs ==
    Malformed \cup {NotAnObject}
        \cup {Stdin("object", FALSE, "", t, "") : t \in {"", "t.jsonl"}}

\* stdin of the SessionStart hook
SessionStartInputs ==
    Malformed \cup {NotAnObject}
        \cup {Stdin("object", FALSE, "", "", src) : src \in {"startup", "resume"}}

\* what _extract_assistant_text may find in the transcript: nothing, and
\* texts of MIN_CHARS and MIN_CHARS + 1 characters by their last character
TranscriptTexts ==
    {[len |-> 0, last |-> ""], [len |-> MIN_CHARS, last |-> "."],
     [len |-> MIN_CHARS + 1, last |-> "."], [len |-> MIN_CHARS + 1, last |-> "a"]}

\* json.loads(raw.decode('utf-8')) raises UnicodeDecodeError or
\* JSONDecodeError
ParseFails(stdin) == stdin.form \in {"bad_utf8", "bad_json"}

\* a guard that never finds semi-auto
ReadSpeechModeAuto(file) == "auto"

\* _read_speech_mode: data.get('speech_mode', 'auto') of config.json,
\* 'auto' when the file is absent or unreadable
read_speech_mode(file) ==
    IF "speech_mode" \in DOMAIN file THEN file.speech_mode ELSE "auto"

HookResult(exit, posted, launched) ==
    [exit |-> exit, posted |-> posted, launched |-> launched]

\* stop_hook.main(): payload.get on JSON that is no object, and .strip()
\* on a null message, raise AttributeError outside every try
StopHookRun(stdin, file) ==
    IF ParseFails(stdin) THEN HookResult(0, FALSE, FALSE)
    ELSE IF stdin.form # "object" THEN HookResult(UncaughtExit, FALSE, FALSE)
    ELSE IF stdin.stop_hook_active THEN HookResult(0, FALSE, FALSE)
    ELSE IF stdin.last_assistant_message = None
        THEN HookResult(UncaughtExit, FALSE, FALSE)
    ELSE IF stdin.last_assistant_message = "" THEN HookResult(0, FALSE, FALSE)
    ELSE IF read_speech_mode(file) = "semi-auto" THEN HookResult(0, FALSE, FALSE)
    ELSE HookResult(0, TRUE, FALSE)

\* _is_substantial: len(stripped) > MIN_CHARS and stripped[-1] in . ! ?
is_substantial(text) == text.len > MIN_CHARS /\ text.last \in {".", "!", "?"}

\* post_tool_use_hook.main(): the speech mode is read before the payload
\* is looked at
PostToolUseRun(stdin, file, text) ==
    IF ParseFails(stdin) THEN HookResult(0, FALSE, FALSE)
    ELSE IF read_speech_mode(file) = "semi-auto" THEN HookResult(0, FALSE, FALSE)
    ELSE IF stdin.form # "object" THEN HookResult(UncaughtExit, FALSE, FALSE)
    ELSE IF stdin.transcript_path = "" THEN HookResult(0, FALSE, FALSE)
    ELSE IF text.len = 0 THEN HookResult(0, FALSE, FALSE)
    ELSE IF ~is_substantial(text) THEN HookResult(0, FALSE, FALSE)
    ELSE HookResult(0, TRUE, FALSE)

\* how os.kill(pid, 0) may end: it returns, or raises ProcessLookupError,
\* PermissionError or another OSError
KillOutcomes == {"returns", "lookup", "permission", "oserror"}

\* _service_is_running: False without a PID file or with a corrupt one,
\* else by the outcome of os.kill(pid, 0)
service_is_running(file, kill) ==
    IF file = Absent \/ file = Corrupt THEN FALSE
    ELSE kill \in {"returns", "permission"}

\* session_start_hook.main(): Popen of the service unless it runs; the
\* setup files may be missing, which is caught
SessionStartRun(stdin, running, setup) ==
    IF ParseFails(stdin) THEN HookResult(0, FALSE, FALSE)
    ELSE IF stdin.form # "object" THEN HookResult(UncaughtExit, FALSE, FALSE)
    ELSE IF stdin.source # "startup" THEN HookResult(0, FALSE, FALSE)
    ELSE IF running THEN HookResult(0, FALSE, FALSE)
    ELSE HookResult(0, FALSE, setup)

\* everything but the hook process
hooklessVars == <<httpVars, workerVars, duckVars, lifeVars, playing, seen,
                  cue_plays, unfinished_tasks, pp, at_stop, sup, lifespan>>

\* the hook process has ended with result r
HookEnds(kind, stdin, r) ==
    hook' = [kind |-> kind, stdin |-> stdin, exit |-> r.exit,
             posted |-> r.posted, launched |-> r.launched,
             runs |-> hook.runs + 1]

\* the host runs the Stop hook
StopHook ==
    /\ hook.runs < MaxHookRuns
    /\ \E stdin \in StopInputs :
         HookEnds("stop", stdin, StopHookRun(stdin, config_file))
    /\ UNCHANGED hooklessVars

\* the host runs the PostToolUse hook
PostToolUseHook ==
    /\ hook.runs < MaxHookRuns
    /\ \E stdin \in PostToolUseInputs, text \in TranscriptTexts :
         HookEnds("post_tool_use", stdin, PostToolUseRun(stdin, config_file, text))
    /\ UNCHANGED hooklessVars

\* the host runs the SessionStart hook
SessionStartHook ==
    /\ hook.runs < MaxHookRuns
    /\ \E stdin \in SessionStartInputs, kill \in KillOutcomes, setup \in BOOLEAN :
         HookEnds("session_start", stdin,
                  SessionStartRun(stdin, service_is_running(pid_file, kill), setup))
    /\ UNCHANGED hooklessVars

\* config.json when the service starts: absent, or edited by hand
HookConfigs == {NoConfig, [speech_mode |-> "semi-auto"]}

\* bodies of POST /config in these runs
HookRequests == {[speech_mode |-> "semi-auto"], [speech_mode |-> "auto"]}

InitHooks == \E cfg \in HookConfigs : InitWith(cfg, QuietMixer)

NextHooks ==
    \/ Lifespan
    \/ UpdateConfigBegin(MaxHookCalls, HookRequests)
    \/ UpdateConfigWrite
    \/ UpdateConfigCapture
    \/ UpdateConfigSave(SaveOutcomes)
    \/ StopHook
    \/ PostToolUseHook
    \/ SessionStartHook

SpecHooks == InitHooks /\ [][NextHooks]_vars

\* ------------------------------------------------------------------------
\* Engine switching: POST /config changes model and piper_model_path while
\* utterances are spoken.
\* ------------------------------------------------------------------------
\* Bounds: requests served and sentences of one text in these runs
MaxEngineCalls == 4
MaxEngineSentences == 1

\* bodies of POST /config that switch the engine or the piper model
EngineRequests ==
    { [model |-> "piper", piper_model_path |-> "lessac.onnx"],
      [piper_model_path |-> "amy.onnx"],
      [model |-> "kokoro"],
      [model |-> "piper"] }

\* config.json at startup: absent, or with piper chosen
EngineConfigs == {NoConfig, [model |-> "piper", piper_model_path |-> "lessac.onnx"]}

InitEngine == \E cfg \in EngineConfigs : InitWith(cfg, QuietMixer)

NextEngine ==
    \/ Lifespan
    \/ SpeakBegin(MaxEngineCalls, MaxEngineSentences)
    \/ SpeakPut
    \/ UpdateConfigBegin(MaxEngineCalls, EngineRequests)
    \/ UpdateConfigWrite
    \/ UpdateConfigCapture
    \/ UpdateConfigSave({"ok"})
    \/ WorkerGet
    \/ WorkerCheck({TRUE})
    \/ WorkerResolve
    \/ WorkerResolvePath(BOOLEAN)
    \/ WorkerDuck(NoFaults)
    \/ WorkerCreate({TRUE})
    \/ WorkerPlay({TRUE})
    \/ PlaybackEnds
    \/ WorkerWait
    \/ WorkerUnduck(NoFaults)
    \/ WorkerFinally(NoFaults, {TRUE})

SpecEngine == InitEngine /\ [][NextEngine]_vars

\* ------------------------------------------------------------------------
\* Speed and volume: values from POST /config and from config.json.
\* ------------------------------------------------------------------------
\* Bound: POST /config requests served in these runs
MaxRangeCalls == 2

\* config.json at startup: absent, written by the service, edited by hand
RangeConfigs ==
    { NoConfig,
      [speed |-> SpeedMin, volume |-> VolumeMin],
      [speed |-> SpeedMax + 30],
      [volume |-> VolumeMax + 5] }

\* bodies of POST /config at and beyond the ends of the ranges
RangeRequests ==
    {[speed |-> v] : v \in {SpeedMin - 1, SpeedMin, SpeedMax, SpeedMax + 1}}
        \cup {[volume |-> v] : v \in {VolumeMin - 1, VolumeMin, VolumeMax, VolumeMax + 1}}
        \cup {[speed |-> SpeedMax, volume |-> VolumeMax + 1]}

\* the service is not running yet
InitRange == \E cfg \in RangeConfigs : InitAt("down", Absent, 0, cfg, QuietMixer)

NextRange ==
    \/ Launch
    \/ Lifespan
    \/ UpdateConfigBegin(MaxRangeCalls, RangeRequests)
    \/ UpdateConfigWrite
    \/ UpdateConfigCapture
    \/ UpdateConfigSave(SaveOutcomes)

SpecRange == InitRange /\ [][NextRange]_vars

\* ------------------------------------------------------------------------
\* Processes started at the same time: acquire_pid_lock of each one runs
\* statement by statement beside the others'.  Process p has pid p.
\* ------------------------------------------------------------------------
\* what psutil reports for the pid in the PID file: a started process that
\* has not exited is a live pythonw.exe; any other pid is at the mercy of
\* the machine
PidOwners(file) ==
    IF file \in Supervisors
       THEN IF sup[file] \in {"write", "running"} THEN {ServiceProc}
                                                  ELSE {Proc(FALSE, FALSE, None)}
       ELSE StaleOwners

\* acquire_pid_lock up to PID_FILE.unlink: sys.exit(0) beside a live Python
\* process, else the file, if there is one, is removed
AcquireCheck(p) ==
    /\ sup[p] = "none"
    /\ \E owner \in PidOwners(pid_file) :
         IF acquire_pid_lock(pid_file, owner, p).exit
            THEN /\ sup' = [sup EXCEPT ![p] = "refused"]
                 /\ UNCHANGED pid_file
            ELSE /\ sup' = [sup EXCEPT ![p] = "write"]
                 /\ pid_file' = Absent
    /\ UNCHANGED <<httpVars, workerVars, duckVars, playing, seen, cue_plays,
                   unfinished_tasks, pp, hook, at_stop, lifespan>>
    /\ UNCHANGED <<tmp_file, tray, last_save, pid, launches, second, pre_restart>>

\* PID_FILE.write_text(str(os.getpid())); atexit.register(_release_pid_lock)
AcquireWrite(p) ==
    /\ sup[p] = "write"
    /\ sup' = [sup EXCEPT ![p] = "running"]
    /\ pid_file' = p
    /\ UNCHANGED <<httpVars, workerVars, duckVars, playing, seen, cue_plays,
                   unfinished_tasks, pp, hook, at_stop, lifespan>>
    /\ UNCHANGED <<tmp_file, tray, last_save, pid, launches, second, pre_restart>>

\* an exit that keeps the lock file when it names another pid
ReleaseOwn(file, me) == IF file = me THEN Absent ELSE file

\* _release_pid_lock: PID_FILE.unlink(missing_ok=True)
release_pid_lock(file, me) == Absent

\* main(): an exception after the lock was taken ends in sys.exit(1), and
\* the atexit handlers run
FatalExit(p) ==
    /\ sup[p] = "running"
    /\ sup' = [sup EXCEPT ![p] = "exited"]
    /\ pid_file' = release_pid_lock(pid_file, p)
    /\ UNCHANGED <<httpVars, workerVars, duckVars, playing, seen, cue_plays,
                   unfinished_tasks, pp, hook, at_stop, lifespan>>
    /\ UNCHANGED <<tmp_file, tray, last_save, pid, launches, second, pre_restart>>

InitRace == \E pidf \in PidFiles : InitAt("down", pidf, 0, NoConfig, QuietMixer)

NextRace ==
    \E p \in Supervisors :
        \/ AcquireCheck(p)
        \/ AcquireWrite(p)
        \/ FatalExit(p)

SpecRace == InitRace /\ [][NextRace]_vars

\* ------------------------------------------------------------------------
\* Quit in the tray menu beside the worker: _on_quit runs on the tray
\* thread, statement by statement beside the worker thread.
\* ------------------------------------------------------------------------
\* Bounds: /speak calls and sentences of one text in these runs
MaxQuitCalls == 1
MaxQuitSentences == 2

\* duck() up to the enumeration: CoInitialize(), self._saved.clear()
WorkerDuckEnter ==
    /\ wpc = "duck"
    /\ wpc' = "ducking"
    /\ saved' = EmptySaved
    /\ UNCHANGED <<sessions, pre_duck, duck_phase>>
    /\ UNCHANGED httpVars
    /\ UNCHANGED <<item, ducked, engine, used, at_dequeue, consecutive_failures,
                   notices, icon_image, piper_loaded_path, piper_loads,
                   last_started>>
    /\ UNCHANGED playing
    /\ UNCHANGED lifeVars
    /\ UNCHANGED <<seen, cue_plays>>
    /\ UNCHANGED unfinished_tasks
    /\ UNCHANGED otherVars

\* duck() from GetAllSessions() to its return; ducked = True
WorkerDuckBody ==
    /\ wpc = "ducking"
    /\ LET r == duck(saved, sessions, NoFault) IN
         /\ saved' = r.saved
         /\ sessions' = r.sessions
    /\ pre_duck' = sessions
    /\ duck_phase' = "ducked"
    /\ ducked' = TRUE
    /\ wpc' = "create"
    /\ UNCHANGED httpVars
    /\ UNCHANGED <<item, engine, used, at_dequeue, consecutive_failures, notices,
                   icon_image, piper_loaded_path, piper_loads, last_started>>
    /\ UNCHANGED playing
    /\ UNCHANGED lifeVars
    /\ UNCHANGED <<seen, cue_plays>>
    /\ UNCHANGED unfinished_tasks
    /\ UNCHANGED otherVars

\* _on_quit, first statement: _ducker.unduck()
QuitUnduck ==
    /\ phase \in {"startup", "serving"}
    /\ tray.pc = "idle"
    /\ tray' = [tray EXCEPT !.pc = "quit"]
    /\ LET r == unduck(saved, sessions, NoFault) IN
         /\ saved' = r.saved
         /\ sessions' = r.sessions
    /\ at_stop' = [wpc |-> wpc, ducked |-> ducked]
    /\ UNCHANGED <<pre_duck, duck_phase>>
    /\ UNCHANGED httpVars
    /\ UNCHANGED workerVars
    /\ UNCHANGED playing
    /\ UNCHANGED <<tmp_file, last_save, pid_file, pid, launches, second,
                   pre_restart>>
    /\ UNCHANGED <<seen, cue_plays>>
    /\ UNCHANGED unfinished_tasks
    /\ UNCHANGED toolVars

\* _on_quit, second statement: os._exit(0)
QuitExit ==
    /\ tray.pc = "quit"
    /\ ExitProcess
    /\ UNCHANGED <<saved, sessions>>

InitQuit == InitWith(NoConfig, QuietMixer)

NextQuit ==
    \/ Lifespan
    \/ SpeakBegin(MaxQuitCalls, MaxQuitSentences)
    \/ SpeakPut
    \/ WorkerGet
    \/ WorkerCheck({TRUE})
    \/ WorkerResolve
    \/ WorkerDuckEnter
    \/ WorkerDuckBody
    \/ WorkerCreate({TRUE})
    \/ WorkerPlay({TRUE})
    \/ PlaybackEnds
    \/ WorkerWait
    \/ WorkerUnduck(NoFaults)
    \/ WorkerFinally(NoFaults, {TRUE})
    \/ QuitUnduck
    \/ QuitExit

SpecQuit == InitQuit /\ [][NextQuit]_vars

\* ------------------------------------------------------------------------
\* The lifespan hook statement by statement, then /speak and the worker.
\* ------------------------------------------------------------------------
\* Bounds: /speak calls and sentences of one text in these runs
MaxStartupCalls == 2
MaxStartupSentences == 2

\* what the lifespan hook leaves alone
startupRest == <<TTS_QUEUE, State, http, ncalls, enq_count, burst, config_file,
                 item, ducked, engine, used, at_dequeue, consecutive_failures,
                 notices, icon_image, piper_loaded_path, piper_loads,
                 last_started, duckVars, playing, lifeVars, seen, cue_plays,
                 unfinished_tasks, pp, hook, sup, at_stop>>

\* how _load_and_warmup_kokoro may end: it returns; a model file is
\* missing; Kokoro(...) raises; the warmup kokoro.create(...) raises
LoadOutcomes == {"ok", "missing", "load_fails", "warmup_fails"}

\* the hook ends at one of its except clauses, or after the startup
\* audio: the server begins to serve
LifespanYield(load) ==
    /\ phase' = "serving"
    /\ lifespan' = [lifespan EXCEPT !.pc = "done", !.load = load]

\* a hook that starts the worker thread before it loads the engine
LoadAfterWorkerStart ==
    /\ phase = "startup"
    /\ lifespan.pc = "start"
    /\ wpc' = "get"
    /\ \E outcome \in LoadOutcomes :
         IF outcome = "ok"
            THEN /\ lifespan' = [lifespan EXCEPT !.pc = "worker", !.load = "ok",
                                                 !.create = @ + 1]
                 /\ is_ready' = TRUE
                 /\ UNCHANGED phase
            ELSE /\ LifespanYield("failed")
                 /\ UNCHANGED is_ready
    /\ UNCHANGED startupRest

\* _configure_audio(); _kokoro_engine = _load_and_warmup_kokoro(): the
\* warmup synthesis is a kokoro.create call made by the hook itself
LifespanLoad ==
    /\ phase = "startup"
    /\ lifespan.pc = "start"
    /\ \E outcome \in LoadOutcomes :
         IF outcome = "ok"
            THEN /\ lifespan' = [lifespan EXCEPT !.pc = "loaded", !.load = "ok",
                                                 !.create = @ + 1]
                 /\ UNCHANGED phase
         ELSE IF outcome = "warmup_fails"
            THEN /\ phase' = "serving"
                 /\ lifespan' = [lifespan EXCEPT !.pc = "done", !.load = "failed",
                                                 !.create = @ + 1]
            ELSE LifespanYield("failed")
    /\ UNCHANGED <<is_ready, wpc>>
    /\ UNCHANGED startupRest

\* is_ready = True
LifespanReady ==
    /\ lifespan.pc = "loaded"
    /\ is_ready' = TRUE
    /\ lifespan' = [lifespan EXCEPT !.pc = "ready"]
    /\ UNCHANGED <<phase, wpc>>
    /\ UNCHANGED startupRest

\* start_tts_worker(_kokoro_engine, icon=_tray_icon)
LifespanStartWorker ==
    /\ lifespan.pc = "ready"
    /\ wpc' = "get"
    /\ lifespan' = [lifespan EXCEPT !.pc = "worker"]
    /\ UNCHANGED <<phase, is_ready>>
    /\ UNCHANGED startupRest

\* startup audio: _kokoro_engine.create("AgentTalk is running.", ...) in
\* the hook; an exception goes to `except Exception` and the hook yields
LifespanAudioCreate ==
    /\ lifespan.pc = "worker"
    /\ \E ok \in BOOLEAN :
         IF ok
            THEN /\ lifespan' = [lifespan EXCEPT !.pc = "audio", !.create = @ + 1]
                 /\ UNCHANGED phase
            ELSE /\ phase' = "serving"
                 /\ lifespan' = [lifespan EXCEPT !.pc = "done", !.create = @ + 1]
    /\ UNCHANGED <<is_ready, wpc>>
    /\ UNCHANGED startupRest

\* play_audio(samples, rate): sd.play and the blocking sd.wait, in the
\* hook; then yield
LifespanAudioPlay ==
    /\ lifespan.pc = "audio"
    /\ phase' = "serving"
    /\ lifespan' = [lifespan EXCEPT !.pc = "done", !.play = @ + 1]
    /\ UNCHANGED <<is_ready, wpc>>
    /\ UNCHANGED startupRest

InitStartup == InitWith(NoConfig, QuietMixer)

NextStartup ==
    \/ LifespanLoad
    \/ LifespanReady
    \/ LifespanStartWorker
    \/ LifespanAudioCreate
    \/ LifespanAudioPlay
    \/ SpeakBegin(MaxStartupCalls, MaxStartupSentences)
    \/ SpeakPut
    \/ WorkerGet
    \/ WorkerCheck({TRUE})
    \/ WorkerResolve
    \/ WorkerDuck(NoFaults)
    \/ WorkerCreate({TRUE})
    \/ WorkerPlay({TRUE})
    \/ PlaybackEnds
    \/ WorkerWait
    \/ WorkerUnduck(NoFaults)
    \/ WorkerFinally(NoFaults, {TRUE})

SpecStartup == InitStartup /\ [][NextStartup]_vars

\* ------------------------------------------------------------------------
\* The failure counter: the worker with every step failing at will, with
\* mute, and with POST /config muting and unmuting in between.
\* ------------------------------------------------------------------------
\* Bounds: requests served and sentences of one text in these runs
MaxCountCalls == 2
MaxCountSentences == 2

\* bodies of POST /config in these runs
CountRequests == {[muted |-> TRUE], [muted |-> FALSE]}

\* the mixer works, or CoInitialize raises
CountFaults == {NoFault, InitFault}

\* config.json of these runs: absent, or piper selected without a path
CountConfigs == {NoConfig, [model |-> "piper"]}

InitCount == \E cfg \in CountConfigs : InitWith(cfg, QuietMixer)

NextCount ==
    \/ Lifespan
    \/ SpeakBegin(MaxCountCalls, MaxCountSentences)
    \/ SpeakPut
    \/ UpdateConfigBegin(MaxCountCalls, CountRequests)
    \/ UpdateConfigWrite
    \/ UpdateConfigCapture
    \/ UpdateConfigSave({"ok"})
    \/ WorkerGet
    \/ WorkerCheck({TRUE})
    \/ WorkerResolve
    \/ WorkerResolvePath(BOOLEAN)
    \/ WorkerDuck(CountFaults)
    \/ WorkerCreate(BOOLEAN)
    \/ WorkerPlay(BOOLEAN)
    \/ WorkerWait
    \/ WorkerUnduck(CountFaults)
    \/ WorkerFinally(NoFaults, {TRUE})
    \/ PlaybackEnds

SpecCount == InitCount /\ [][NextCount]_vars

\* ========================================================================
\* Properties
\* ========================================================================
\* nothing has been taken from the queue yet (the worker has not run)
NothingDequeued == enq_count = Len(TTS_QUEUE) /\ item = NoItem

\* C1: in every reachable state the TTS queue holds at most QUEUE_CAPACITY
\* (10) items.
C1_QueueBounded == Len(TTS_QUEUE) <= QUEUE_CAPACITY

\* C1 witness: the queue is full and a /speak insert has just been refused.
C1_Witness ==
    /\ Len(TTS_QUEUE) = QUEUE_CAPACITY
    /\ http.sawFull
    /\ wpc # "off"

\* C2 (as claimed): over the /speak calls that reached the insert loop and
\* returned, the queued counts plus the dropped counts add up to the number
\* of sentences those calls preprocessed to.
C2_QueuedPlusDroppedIsM ==
    http.op = "idle" => burst.queued + burst.dropped = burst.m

\* C3: a ready /speak call with at least one sentence answers 429 "dropped"
\* exactly when it inserted nothing, having met a full queue, and otherwise
\* 202 with `sentences` equal to the number of items it inserted; and as
\* long as nothing has been dequeued, 429 is answered only with 10 items
\* in the queue.
C3_ResponseMatchesInserts ==
    (http.op = "idle" /\ Len(http.sentences) > 0) =>
        /\ http.resp.code \in {202, 429}
        /\ http.resp.code = 429 <=> Len(http.inserted) = 0
        /\ http.resp.code = 429 =>
              /\ http.sawFull
              /\ http.resp.status = "dropped"
              /\ NothingDequeued => Len(TTS_QUEUE) = QUEUE_CAPACITY
        /\ http.resp.code = 202 =>
              /\ http.resp.status = "queued"
              /\ http.resp.sentences = Len(http.inserted)
              /\ NothingDequeued /\ ~http.sawFull =>
                    Len(http.inserted) = Len(http.sentences)

\* C3 witness: with nothing dequeued, ten items are queued and the next
\* call has been answered 429.
C3_Witness ==
    /\ http.op = "idle"
    /\ http.resp.code = 429
    /\ NothingDequeued
    /\ Len(TTS_QUEUE) = QUEUE_CAPACITY

\* C4: every step of the /speak loop leaves the queue alone or appends one
\* item behind the items already there; the item appended is the next
\* sentence of the call, nothing is appended once an insert has failed
\* with Full, and so the sentences inserted are a prefix of the call's list.
C4_InsertsArePrefix ==
    [][ (http.op = "speak" /\ http' # http) =>
          /\ \/ TTS_QUEUE' = TTS_QUEUE
             \/ /\ Len(TTS_QUEUE') = Len(TTS_QUEUE) + 1
                /\ SubSeq(TTS_QUEUE', 1, Len(TTS_QUEUE)) = TTS_QUEUE
                /\ LET x == TTS_QUEUE'[Len(TTS_QUEUE')] IN
                   [call |-> x.call, idx |-> x.idx]
                       = http.sentences[Len(http.inserted) + 1]
          /\ http.sawFull => TTS_QUEUE' = TTS_QUEUE
          /\ http'.inserted = SubSeq(http.sentences, 1, Len(http'.inserted))
      ]_vars

\* C4 witness: a call was cut short by Full after inserting a proper,
\* non-empty prefix of its sentences.
C4_Witness ==
    /\ http.op = "idle"
    /\ http.sawFull
    /\ Len(http.inserted) > 0
    /\ Len(http.inserted) < Len(http.sentences)
    /\ Len(TTS_QUEUE) = QUEUE_CAPACITY

SpeakNoop(resp) ==
    \/ resp.code = 503 /\ resp.status = "not_ready"
    \/ resp.code = 500 /\ resp.status = "error" /\ resp.reason = "preprocessing failed"
    \/ resp.code = 200 /\ resp.status = "skipped"

\* C5: a /speak call answered 503, 500 or 200 "skipped" leaves the queue
\* exactly as it was, and nothing is in the queue while the service is not
\* ready.
C5_EarlyReturnsLeaveQueue ==
    /\ [][ (http.op = "idle" /\ http' # http /\ SpeakNoop(http'.resp)) =>
              (TTS_QUEUE' = TTS_QUEUE /\ enq_count' = enq_count) ]_vars
    /\ [](~is_ready => (TTS_QUEUE = <<>> /\ enq_count = 0))

\* C5 witness: a call was answered 200 "skipped" while items were waiting.
C5_Witness ==
    /\ http.op = "idle"
    /\ http.resp.code = 200
    /\ http.resp.status = "skipped"
    /\ Len(TTS_QUEUE) > 0

\* a was enqueued before b, and if both come from one call, a comes first
\* in that call's sentence list
Before(a, b) ==
    /\ a.seq < b.seq
    /\ a.call = b.call => a.idx < b.idx

\* C6: each utterance that starts playing was enqueued after the one that
\* started before it (within one call: it is a later sentence), and before
\* every item still waiting.
C6_PlayedInArrivalOrder ==
    [][ last_started' # last_started =>
          /\ last_started # NoItem => Before(last_started, last_started')
          /\ \A p \in 1..Len(TTS_QUEUE') : Before(last_started', TTS_QUEUE'[p])
      ]_vars

\* C6 witness: the second sentence of the second call is playing and more
\* are waiting.
C6_Witness ==
    /\ last_started.call = 2
    /\ last_started.idx = 2
    /\ playing = last_started
    /\ TTS_QUEUE # <<>>

\* C7: the audio device plays only while the worker is inside sd.wait()
\* for that very utterance; so the worker is never at the queue, nor
\* synthesizing or starting another utterance, while one is playing.
C7_OneUtteranceAtATime ==
    playing # NoItem => (wpc = "wait" /\ playing = item)

\* C7 witness: an utterance is in playback while others wait in the queue.
C7_Witness ==
    /\ playing # NoItem
    /\ wpc = "wait"
    /\ Len(TTS_QUEUE) > 1

\* C8 (as claimed): whenever the worker is back at the queue, the ducker
\* holds no snapshot: is_ducked is false after every utterance, also when
\* synthesis, playback or the unduck attempt failed.
C8_NotDuckedAtQueue ==
    wpc = "get" => ~is_ducked(saved)

\* C9 (as claimed): once unduck() has run after duck(), every session that
\* was present at duck() and is still present has its pre-duck volume,
\* every session that appeared in between has the volume it came with, and
\* the snapshot is empty.
C9_DuckUnduckRoundTrip ==
    duck_phase = "restored" =>
        /\ \A k \in SessionIds :
             (pre_duck[k].status = "present" /\ sessions[k].status = "present")
                 => sessions[k].vol = pre_duck[k].vol
        /\ \A k \in SessionIds :
             pre_duck[k].status = "future" => sessions[k].vol = pre_duck[k].vol
        /\ saved = EmptySaved

\* C10 (as claimed): every Runtime State field the worker has passed on for
\* the utterance in hand has the value the field had when the utterance
\* was dequeued.
C10_UsesStateAtDequeue ==
    \A f \in used.got : used[f] = at_dequeue[f]

\* C11 (as claimed): the values the worker has passed on for the utterance
\* in hand (engine kind, Piper path, voice, speed, volume) are together the
\* values State held at one single instant since the utterance was
\* dequeued, also while POST /config writes several fields.
C11_UsesOneInstant ==
    \E s \in seen \cup {WorkerFields(at_dequeue)} :
        \A f \in used.got : used[f] = s[f]

\* everything the /speak calls queued has been spoken
AllSpoken ==
    /\ http.op = "idle"
    /\ TTS_QUEUE = <<>>
    /\ wpc = "get"
    /\ playing = NoItem

\* C12 (as claimed): with both cue paths set, a cue has played before the
\* first utterance starts, and once all queued utterances are spoken the
\* cues have played exactly twice (pre and post) per /speak call that
\* queued a sentence.
C12_CuesOncePerInput ==
    CuesSet(State) =>
        /\ last_started # NoItem => cue_plays >= 1
        /\ AllSpoken => cue_plays = 2 * burst.cued

\* C14: each write step of POST /config gives one field of the request its
\* requested value and leaves every other field of State, `speaking`
\* included, as it was; the other steps of the handler leave State alone;
\* only declared fields are taken from the body, an empty request (or one
\* with only undeclared fields) is answered without any write; and once the
\* writes are done every field of the request holds the requested value.
C14_ConfigChangesOnlyRequested ==
    /\ [][ /\ (http.op = "config" /\ http' # http) =>
                LET key == ConfigFields[http.i] IN
                /\ key \in DOMAIN http.updates
                /\ State'[key] = http.updates[key]
                /\ \A f \in DOMAIN State \ {key} : State'[f] = State[f]
           /\ (http.op \in {"idle", "config_capture", "config_save"}
                 /\ http' # http /\ http'.op # "speak") => State' = State
           /\ (http.op = "idle" /\ http'.op = "config") =>
                /\ DOMAIN http'.updates \subseteq ConfigFieldSet
                /\ DOMAIN http'.updates # {}
         ]_vars
    /\ [](http.op \in {"config_capture", "config_save"} =>
            \A k \in DOMAIN http.updates : State[k] = http.updates[k])

\* C14 witness: a request with two fields has been written while the worker
\* holds `speaking` at TRUE.
C14_Witness ==
    /\ http.op = "config_save"
    /\ Len(UpdatedKeys(http.updates)) = 2
    /\ State.speaking
    /\ State.speed = 20 /\ State.volume = 5

\* C15: when save_config raises inside POST /config the answer is 500 (and
\* only then), State keeps every requested value, config.json keeps its
\* previous content and no temp file is left.
C15_SaveFailureKeepsStateAndFile ==
    [][ (http.op = "config_save" /\ http' # http) =>
          /\ (http'.resp.code = 500) <=> (last_save' = "failed")
          /\ http'.resp.code = 500 =>
                /\ config_file' = config_file
                /\ tmp_file' = NoConfig
                /\ State' = State
                /\ \A k \in DOMAIN http.updates : State'[k] = http.updates[k]
      ]_vars

\* C15 witness: a second request was answered 500; State has its value,
\* config.json still has what the first request saved.
C15_Witness ==
    /\ http.op = "idle"
    /\ http.resp.code = 500
    /\ http.resp.reason = "config save failed"
    /\ config_file # NoConfig
    /\ config_file # Persisted(State)
    /\ tmp_file = NoConfig

\* a response of GET /health
IsHealth(resp) ==
    /\ DOMAIN resp = {"code", "status"}
    /\ resp.status \in {"ok", "initializing"}

C17_FileFollowsState ==
    (pid # 0 /\ http.op = "idle" /\ tray.pc = "idle" /\ last_save = "ok")
        => config_file = Persisted(State)

\* C18: a process launched while the service is alive and holds the PID
\* lock exits with status 0 and changes nothing: the PID file still names
\* the service, State, config.json and the phase of the service are as
\* before, and the launched process does not go on to run.
C18_SecondLaunchExits ==
    [][ (pid # 0 /\ launches' # launches) =>
          /\ second'.outcome = "exit"
          /\ second'.code = 0
          /\ pid_file' = pid_file
          /\ pid_file' = pid
          /\ pid' = pid
          /\ State' = State
          /\ config_file' = config_file
          /\ phase' = phase
          /\ wpc' = wpc
      ]_vars

\* C18 witness: the service is serving under a lock it took over from a
\* stale PID file, and a second launch has exited.
C18_Witness ==
    /\ phase = "serving"
    /\ second.outcome = "exit"
    /\ pid_file = pid
    /\ pid > 1

\* C19 (as claimed): after the service has exited through POST /stop or
\* the tray Quit item, the PID file does not name the exited process.
C19_LockRemovedOnExit ==
    (phase = "down" /\ pre_restart.pid # 0) => pid_file # pre_restart.pid

\* C20 (as claimed): the tray notice is raised only by the failure that
\* brings consecutive_failures to 3, not by the 4th, 5th, ... failure of
\* the same run.
C20_OneNoticePerRun ==
    [][ notices' # notices =>
          consecutive_failures' = MAX_CONSECUTIVE_FAILURES ]_vars

C22_EveryItemAcknowledged ==
    (unfinished_tasks > 0) ~> (unfinished_tasks = 0 /\ wpc = "get")

\* both sentences of a call have failed and the worker waits again
C22_Witness ==
    /\ wpc = "get"
    /\ consecutive_failures >= 2
    /\ enq_count >= 2
    /\ unfinished_tasks = 0

\* C23: the worker step that finds muted set goes straight to the finally
\* block -- no engine resolved, nothing ducked, synthesized or played,
\* speaking untouched -- and the finally block acknowledges the item.
C23_MutedSkipsAndAcks ==
    [][ /\ (wpc = "check" /\ wpc' # wpc /\ State.muted) =>
              /\ wpc' = "finally"
              /\ ~State'.speaking
              /\ UNCHANGED <<State, engine, ducked, saved, sessions, playing,
                             used, icon_image, piper_loads, last_started,
                             consecutive_failures>>
        /\ (wpc = "finally" /\ wpc' # wpc) =>
              /\ wpc' = "get"
              /\ item' = NoItem
              /\ ~State'.speaking
              /\ unfinished_tasks' = unfinished_tasks - 1 ]_vars

\* a muted utterance has been skipped: at the finally block nothing of
\* State was read for it and nothing was counted as failed
C23_Witness ==
    /\ wpc = "finally"
    /\ State.muted
    /\ used.got = {}
    /\ item # NoItem

\* the utterance at hand has failed in engine resolution
ResolveFailed ==
    /\ wpc = "finally"
    /\ "model" \in used.got
    /\ "voice" \notin used.got

\* C24: engine resolution comes before ducking -- while the worker checks
\* and resolves it has not ducked and its steps change no session, and
\* after a failed resolution the finally block changes none either.
C24_ResolveBeforeDuck ==
    [][ /\ wpc \in {"check", "resolve", "resolve_path"} => ~ducked
        /\ (wpc \in {"check", "resolve", "resolve_path"} /\ wpc' # wpc) =>
              /\ UNCHANGED <<saved, sessions>>
              /\ wpc' \in {"resolve", "resolve_path", "duck", "finally"}
        /\ (ResolveFailed /\ wpc' # wpc) => UNCHANGED <<saved, sessions>> ]_vars

\* piper is selected without a usable model: resolution has failed
C24_Witness ==
    /\ ResolveFailed
    /\ used.model = "piper"
    /\ consecutive_failures > 0

\* C25: when POST /stop came while the worker had ducked for an utterance
\* in synthesis or playback, then at the exit of the process the ducker
\* holds no snapshot and every session has the volume it had before duck().
C25_UnduckedAtStopExit ==
    [][ ( /\ phase = "stopping"
          /\ phase' = "down"
          /\ at_stop.ducked
          /\ at_stop.wpc \in {"create", "play", "wait"} ) =>
            (~is_ducked(saved) /\ sessions = pre_duck) ]_vars

\* C27: every string preprocess returns is trimmed, not empty, and at
\* least 40% of its characters are letters.
C27_OutputIsSpeakable ==
    (pp.ran = "preprocess" /\ ~pp.raised) =>
        \A i \in DOMAIN pp.out :
            LET s == pp.out[i]
                letters == Cardinality({j \in DOMAIN s : s[j] = "a"})
            IN  /\ s # <<>>
                /\ s[1] \notin {" ", "\n"}
                /\ s[Len(s)] \notin {" ", "\n"}
                /\ 5 * letters >= 2 * Len(s)

\* a text with a digit has gone through preprocess: one sentence came
\* back and the digit is not in it
C27_Witness ==
    /\ pp.ran = "preprocess"
    /\ \E j \in DOMAIN pp.text : pp.text[j] = "1"
    /\ Len(pp.out) = 1
    /\ \A j \in DOMAIN pp.out[1] : pp.out[1][j] # "1"

\* C28: preprocess never raises.
C28_PreprocessNeverRaises ==
    pp.ran = "preprocess" => ~pp.raised

\* one or more letters
Words == UNION {[1..n -> {"a"}] : n \in 1..MaxLen}

\* C30: strip_markdown puts a full stop and a space for the blank line
\* after a paragraph without terminal punctuation, a space alone after
\* one that ends with a full stop, and a space for a single newline.
C30_ParagraphBreakInjectsPeriod ==
    pp.ran = "strip_markdown" =>
        \A A \in Words, B \in Words :
            /\ pp.text = A \o <<"\n", "\n">> \o B
                  => pp.stripped = A \o <<".", " ">> \o B
            /\ pp.text = A \o <<".", "\n", "\n">> \o B
                  => pp.stripped = A \o <<".", " ">> \o B
            /\ pp.text = A \o <<"\n">> \o B
                  => pp.stripped = A \o <<" ">> \o B

\* the last request served was a POST /config that set speech_mode and
\* was answered 200
SpeechModeSet ==
    /\ http.op = "idle"
    /\ http.resp.code = 200
    /\ "speech_mode" \in DOMAIN http.updates

\* C26: once POST /config has set speech_mode to semi-auto and answered
\* 200, a run of the Stop or PostToolUse hook posts nothing; once it has
\* set auto, the Stop hook posts a message it is given.
C26_HooksFollowSpeechMode ==
    [][ (hook'.runs # hook.runs /\ SpeechModeSet
            /\ hook'.kind \in {"stop", "post_tool_use"}) =>
          /\ State.speech_mode = "semi-auto" => ~hook'.posted
          /\ ( /\ State.speech_mode = "auto"
               /\ hook'.kind = "stop"
               /\ hook'.stdin = Stdin("object", FALSE, "Done.", "", "") )
                 => hook'.posted ]_vars

\* C29: a hook whose stdin is not UTF-8 or not JSON ends with status 0,
\* has posted nothing and started nothing; and every run of a hook ends
\* with status 0.
C29_HooksExitZero ==
    hook.kind # "none" =>
        /\ hook.stdin.form \in {"bad_utf8", "bad_json"}
              => hook.exit = 0 /\ ~hook.posted /\ ~hook.launched
        /\ hook.exit = 0

\* C31: a PiperEngine is constructed only by the worker resolving the
\* engine for an utterance, only when the path in STATE differs from the
\* loaded one, and once; an utterance resolved to piper uses the instance
\* loaded from the path in STATE, with no construction when that path was
\* loaded already. No other step, POST /config included, loads or
\* unloads.
C31_PiperLoadedLazilyAndCached ==
    [][ /\ (piper_loads' # piper_loads \/ piper_loaded_path' # piper_loaded_path) =>
             /\ wpc = "resolve_path"
             /\ item # NoItem
             /\ piper_loaded_path # State.piper_model_path
             /\ piper_loads' = piper_loads + 1
             /\ piper_loaded_path' = State.piper_model_path
        /\ (wpc = "resolve_path" /\ wpc' = "duck") =>
             /\ engine' = "piper"
             /\ piper_loaded_path' = State.piper_model_path
             /\ piper_loaded_path = State.piper_model_path
                   => piper_loads' = piper_loads ]_vars

\* the changed path has been loaded, after the first one, and the model
\* is used for an utterance of a later call
C31_Witness ==
    /\ piper_loads = 2
    /\ piper_loaded_path = "amy.onnx"
    /\ engine = "piper"
    /\ wpc = "duck"
    /\ item.call = MaxEngineCalls

\* C32: whenever no handler is in the middle of an update, model = piper
\* in the Runtime State implies that piper_model_path is set.
C32_PiperHasModelPath ==
    (http.op = "idle" /\ State.model = "piper") => State.piper_model_path # None

\* C33: in every state of the service, speed lies in 0.5..2.0 and volume
\* in 0.0..1.0.
C33_SpeedAndVolumeInRange ==
    /\ State.speed \in SpeedMin..SpeedMax
    /\ State.volume \in VolumeMin..VolumeMax

\* C34: a launch while no instance of the service is running is never
\* refused, whatever the PID file holds and whatever process has its pid:
\* the new process goes on to start up and the PID file holds its pid.
C34_StaleLockNeverBlocks ==
    [][ (phase = "down" /\ launches' = launches + 1) =>
          /\ phase' = "startup"
          /\ pid' = launches + 1
          /\ pid_file' = pid' ]_vars

\* C35: of the processes started together at most one is past
\* acquire_pid_lock at any time, and a process that exits leaves a lock
\* file that names another pid as it is.
C35_OneLockHolder ==
    [][ /\ Cardinality({p \in Supervisors : sup'[p] = "running"}) <= 1
        /\ \A p \in Supervisors :
              (sup[p] = "running" /\ sup'[p] = "exited" /\ pid_file # p)
                  => pid_file' = pid_file ]_vars

\* C36: when the Quit callback calls unduck() the worker is not inside
\* duck(), and when the process then exits no snapshot of ducked sessions
\* is pending: every session is at the volume it had before duck().
C36_QuitUnduckAlone ==
    [][ /\ (tray.pc = "idle" /\ tray'.pc = "quit") => wpc # "ducking"
        /\ (tray.pc = "quit" /\ phase' = "down") =>
              (~is_ducked(saved) /\ (at_stop.ducked => sessions = pre_duck)) ]_vars

\* C37: the worker runs only once the primary engine is loaded and warmed
\* up and ready is marked, and ready is marked only after the load; when
\* the load or the warmup failed, ready is not marked, the worker is not
\* started and nothing has been dequeued.
C37_WorkerStartsAfterReady ==
    /\ wpc # "off" => (is_ready /\ lifespan.load = "ok")
    /\ is_ready => lifespan.load = "ok"
    /\ lifespan.load = "failed" => (~is_ready /\ wpc = "off" /\ NothingDequeued)

\* the hook has run to its end and the worker has dequeued a sentence
C37_Witness ==
    /\ lifespan.pc = "done"
    /\ lifespan.load = "ok"
    /\ wpc = "check"
    /\ item # NoItem

\* C38: the event-loop task, which runs the lifespan hook and the request
\* handlers, has made no engine create call and no blocking play.
C38_NoSynthesisOnHttpTask ==
    lifespan.create = 0 /\ lifespan.play = 0

\* C39: consecutive_failures changes only when the worker leaves the try
\* block of an utterance: unchanged when the utterance was skipped for
\* mute, reset to 0 when it was played and the sessions were unducked,
\* incremented by one when it failed. A cue item and every step of another
\* task leave it as it is.
C39_FailuresSinceLastSuccess ==
    [][ /\ consecutive_failures' # consecutive_failures =>
              (wpc # "finally" /\ wpc' = "finally" /\ ~IsCueItem(item))
        /\ (wpc # "finally" /\ wpc' = "finally") =>
              consecutive_failures' =
                  IF wpc = "check" THEN consecutive_failures
                  ELSE IF wpc = "unduck" /\ last_started = item /\ ~ducked' THEN 0
                  ELSE consecutive_failures + 1 ]_vars

\* after one failed utterance the next one has been played and is about
\* to reset the counter
C39_Witness ==
    /\ consecutive_failures = 1
    /\ wpc = "unduck"
    /\ last_started = item

\* C40: in the queue the sentences of one /speak call stand next to each
\* other, in the order of the text: between two items of one call there
\* is no item of another call.
C40_CallSentencesConsecutive ==
    \A i, k \in 1..Len(TTS_QUEUE) :
        (i < k /\ TTS_QUEUE[i].call = TTS_QUEUE[k].call) =>
            /\ \A j \in i..k : TTS_QUEUE[j].call = TTS_QUEUE[i].call
            /\ TTS_QUEUE[k].idx - TTS_QUEUE[i].idx = k - i

\* two sentences of one call are queued in front of a sentence of the
\* next call
C40_Witness ==
    /\ Len(TTS_QUEUE) >= 3
    /\ TTS_QUEUE[1].call = TTS_QUEUE[2].call
    /\ TTS_QUEUE[3].call # TTS_QUEUE[1].call
====
